---------------------------- MODULE Spec2Model ----------------------------
(***************************************************************************)
(* State-machine model of the HealthMatrix reconciliation engine:          *)
(*   - the chat projection sweep (sync-chats.functions.ts),                *)
(*   - the on-demand chat sync (sync.functions.ts),                        *)
(*   - the document store collections they read and write                  *)
(*     (firestore.service.ts).                                             *)
(* Times are epoch milliseconds; provider datetimes are epoch seconds.     *)
(***************************************************************************)
EXTENDS Integers, Sequences, FiniteSets, TLC

(***************************************************************************)
(* Bounds of the model.                                                    *)
(***************************************************************************)
MaxTicks == 2
MaxMappings == 2
MaxChats == 2
MaxSyncRecords == 1
MaxNotifications == 2
MaxRequestRecords == 2

(***************************************************************************)
(* JavaScript values that can be null / undefined / number / string.       *)
(* Every value has the same record shape so that === is record equality.   *)
(***************************************************************************)
JNull == [t |-> "null", n |-> 0, s |-> ""]
JUndefined == [t |-> "undefined", n |-> 0, s |-> ""]
JNum(x) == [t |-> "number", n |-> x, s |-> ""]
JStr(x) == [t |-> "string", n |-> 0, s |-> x]

\* JavaScript truthiness: null, undefined, 0 and "" are falsy.
Falsy(v) ==
    \/ v.t \in {"null", "undefined"}
    \/ (v.t = "number" /\ v.n = 0)
    \/ (v.t = "string" /\ v.s = "")

\* `v || null`
OrNull(v) == IF Falsy(v) THEN JNull ELSE v

(***************************************************************************)
(* admin.firestore.Timestamp: seconds and nanoseconds.                     *)
(***************************************************************************)
NanosPerMilli == 1000 * 1000

TimestampFromMillis(ms) ==
    LET secs == ms \div 1000
    IN  [seconds |-> secs, nanoseconds |-> (ms - secs * 1000) * NanosPerMilli]

TimestampToMillis(ts) == ts.seconds * 1000 + ts.nanoseconds \div NanosPerMilli

\* dateStringToTimestamp: the provider's datetime string denotes a whole
\* second; new Date(datetime) gives its epoch milliseconds.
dateStringToTimestamp(datetimeSecs) == TimestampFromMillis(datetimeSecs * 1000)

(***************************************************************************)
(* The clock.  Date.now() and Timestamp.now() read the variable `now`.     *)
(***************************************************************************)
StartMillis == 100 * 1000
TickMillis == 1 * 1000
\* The projection sweep is scheduled "every 5 minutes".
SweepPeriodMillis == 5 * 60 * 1000
\* The instants the clock is read at: ticks after the start and the periods
\* of the sweep's schedule.
ClockValues ==
    {StartMillis + k * TickMillis : k \in 0..MaxTicks}
        \cup {StartMillis + k * SweepPeriodMillis : k \in 0..MaxTicks}

(***************************************************************************)
(* Sequence helpers.                                                       *)
(***************************************************************************)
\* Insert x into an ascending sequence of integers.
RECURSIVE InsertSorted(_, _)
InsertSorted(x, seq) ==
    IF seq = <<>> THEN <<x>>
    ELSE IF x <= Head(seq) THEN <<x>> \o seq
         ELSE <<Head(seq)>> \o InsertSorted(x, Tail(seq))

\* Array.prototype.sort on an array of ids.
RECURSIVE SortIds(_)
SortIds(seq) ==
    IF seq = <<>> THEN <<>> ELSE InsertSorted(Head(seq), SortIds(Tail(seq)))

\* The elements of a set of integers in ascending order.
RECURSIVE SetToSortedSeq(_)
SetToSortedSeq(S) ==
    IF S = {} THEN <<>>
    ELSE LET x == CHOOSE y \in S : \A z \in S : y <= z
         IN  <<x>> \o SetToSortedSeq(S \ {x})

(***************************************************************************)
(* sync-chats.functions.ts: the pure part of the chat status projector.    *)
(* A YClientsRecord is [recordId, deleted, serviceTitle, datetime,         *)
(* attendance, length]; serviceTitle is a JS value, datetime a Timestamp.  *)
(***************************************************************************)
isRecordActiveNoShow(record, nowTs) ==
    IF record.deleted THEN FALSE
    ELSE IF record.attendance = 1 THEN FALSE
    ELSE LET thresholdMillis == TimestampToMillis(nowTs) - (record.length * 3 * 1000)
             threshold == TimestampFromMillis(thresholdMillis)
         IN  TimestampToMillis(record.datetime) >= TimestampToMillis(threshold)

isRecordActiveStrict(record, nowTs) ==
    IF record.deleted THEN FALSE
    ELSE IF record.attendance = 1 \/ record.attendance = -1 THEN FALSE
    ELSE LET thresholdMillis == TimestampToMillis(nowTs) - (record.length * 3 * 1000)
             threshold == TimestampFromMillis(thresholdMillis)
         IN  TimestampToMillis(record.datetime) > TimestampToMillis(threshold)

\* isRecordActive without the threshold: a record that is neither deleted nor
\* attended or missed is active at any time.
isRecordActiveNoWindow(record, nowTs) ==
    IF record.deleted THEN FALSE
    ELSE IF record.attendance = 1 \/ record.attendance = -1 THEN FALSE
    ELSE TRUE

isRecordActive(record, nowTs) ==
    IF record.deleted THEN FALSE
    ELSE IF record.attendance = 1 \/ record.attendance = -1 THEN FALSE
    ELSE LET thresholdMillis == TimestampToMillis(nowTs) - (record.length * 3 * 1000)
             threshold == TimestampFromMillis(thresholdMillis)
         IN  TimestampToMillis(record.datetime) >= TimestampToMillis(threshold)

\* for (const record of records) if (isRecordActive(record, now)) return 'active'
RECURSIVE statusLoop(_, _)
statusLoop(records, nowTs) ==
    IF records = <<>> THEN "archived"
    ELSE IF isRecordActive(Head(records), nowTs) THEN "active"
         ELSE statusLoop(Tail(records), nowTs)

determineChatStatusAlwaysActive(records, nowMs) == "active"

determineChatStatus(records, nowMs) == statusLoop(records, TimestampFromMillis(nowMs))

NoRecordInfo == [found |-> FALSE, title |-> JNull, date |-> JNull]

findRecordForChatInfoFirst(records, nowMs) ==
    IF Len(records) = 0 THEN NoRecordInfo
    ELSE [found |-> TRUE,
          title |-> records[1].serviceTitle,
          date |-> JNum(TimestampToMillis(records[1].datetime))]

findRecordForChatInfo(records, nowMs) ==
    IF Len(records) = 0 THEN NoRecordInfo
    ELSE
      LET nowTs == TimestampFromMillis(nowMs)
          Active(r) == isRecordActive(r, nowTs)
          \* records.filter(record => isRecordActive(record, now))
          activeRecords == SelectSeq(records, Active)
          \* activeRecords.reduce((prev, curr) => curr < prev ? curr : prev)
          nearestUpTo[i \in 1..Len(activeRecords)] ==
              IF i = 1 THEN activeRecords[1]
              ELSE IF TimestampToMillis(activeRecords[i].datetime)
                        < TimestampToMillis(nearestUpTo[i - 1].datetime)
                   THEN activeRecords[i] ELSE nearestUpTo[i - 1]
          \* records.reduce((prev, curr) => curr > prev ? curr : prev)
          lastUpTo[i \in 1..Len(records)] ==
              IF i = 1 THEN records[1]
              ELSE IF TimestampToMillis(records[i].datetime)
                        > TimestampToMillis(lastUpTo[i - 1].datetime)
                   THEN records[i] ELSE lastUpTo[i - 1]
      IN  IF Len(activeRecords) > 0
          THEN LET nearest == nearestUpTo[Len(activeRecords)]
               IN  [found |-> TRUE,
                    title |-> nearest.serviceTitle,
                    date |-> JNum(TimestampToMillis(nearest.datetime))]
          ELSE LET lastRecord == lastUpTo[Len(records)]
               IN  [found |-> TRUE,
                    title |-> lastRecord.serviceTitle,
                    date |-> JNum(TimestampToMillis(lastRecord.datetime))]

(***************************************************************************)
(* State.                                                                  *)
(***************************************************************************)
VARIABLES
    now,              \* the wall clock, epoch milliseconds
    yclientsChats,    \* collection yclients/mapping/yclientsChats (ChatMapping)
    yclientsRecords,  \* subcollections yclientsRecords of the chat mappings
    chats,            \* collection chats
    yclientsUsers,    \* collection yclients/mapping/yclientsUsers (IdentityMapping)
    users,            \* collection users
    sweepPc,          \* syncYClientsChatsToChats: "idle" or "loop"
    sweepQueue,       \* chat mappings the running sweep has still to process
    stats,            \* ChatSyncStats of the running (or last) sweep
    sweepLog,         \* what became of the mappings the running sweep read (history)
    syncPc,           \* syncChats: "idle" or "loop"
    syncLeft,         \* records the running on-demand sync may still process
    syncStats,        \* SyncStats of the running (or last) on-demand sync
    syncLog,          \* the request, its records' fate and the last record applied (history)
    responses,        \* responses sent to the last request of an endpoint
    lastOp,           \* what the last step did (history, read by the properties)
    settled,          \* chat mappings projected since their inputs last changed
    runs,             \* local state of the overlapping runs and requests
    notificationsPending, \* collection notifications/references/pending
    notificationsSent,    \* collection notifications/references/sent
    messages,         \* subcollections messages of the chats
    dispatchPc,       \* processPendingNotifications: "idle" or "loop"
    dispatchQueue,    \* pending notifications the running dispatch has still to process
    pushAttempts,     \* ids of the notifications handed to the push gateway (history)
    heldQuiet,        \* ids held by the debounce whose message is untouched since (history)
    terminalIds,      \* ids of the notifications that were removed or moved (history)
    dispatchLog,      \* ids the running dispatch read, processed and failed on (history)
    lastNotif         \* what the last dispatch step did (history)

notifVars == <<notificationsPending, notificationsSent, messages, dispatchPc,
               dispatchQueue, pushAttempts, heldQuiet, terminalIds, dispatchLog,
               lastNotif>>

vars == <<now, yclientsChats, yclientsRecords, chats, yclientsUsers, users,
          sweepPc, sweepQueue, stats, sweepLog, syncPc, syncLeft, syncStats,
          syncLog, responses, lastOp,
          settled, runs, notifVars>>

storeVars == <<yclientsChats, yclientsRecords, chats, yclientsUsers, users>>
sweepVars == <<sweepPc, sweepQueue, stats, sweepLog>>
syncVars == <<syncPc, syncLeft, syncStats, syncLog, responses>>

MappingIds == 1..MaxMappings
ChatIds == 1..MaxChats
RecordIds == {1, 2}

(***************************************************************************)
(* Provider data (inputs).  A YRecord is [id, staff_id, client, services,  *)
(* datetime, attendance, length, deleted]; client.present = FALSE is the   *)
(* provider's `client: null`; datetime is in epoch seconds.                *)
(***************************************************************************)
\* The identity mappings and users the store can hold: one client, one staff.
IdentityClient == [id |-> 1, clientId |-> 1, phone |-> "p1", staffId |-> 0]
IdentityStaff == [id |-> 2, clientId |-> 7, phone |-> "s1", staffId |-> 1]
UserOfClient == [id |-> 2, yclientsId |-> 1]
UserOfStaff == [id |-> 1, yclientsId |-> 2]

StaffId == IdentityStaff.staffId
StaffPhone == IdentityStaff.phone
NoClient == [present |-> FALSE, id |-> 0, phone |-> ""]
Client1 ==
    [present |-> TRUE, id |-> IdentityClient.clientId, phone |-> IdentityClient.phone]
RecordClients == {NoClient, Client1}
ServiceLists == {<<>>, <<"Cut">>, <<"Dye">>}
Attendances == {-1, 0, 1}
Lengths == {1, 2}
\* Scheduled datetimes: 3 and 2 seconds before the clock's first value.
Datetimes == {StartMillis \div 1000 - 3, StartMillis \div 1000 - 2}

YRecords ==
    [id : RecordIds, staff_id : {StaffId}, client : RecordClients,
     services : ServiceLists, datetime : Datetimes, attendance : Attendances,
     length : Lengths, deleted : BOOLEAN]

\* The records the provider returns to the jobs of the sequential
\* specification: record 1 is the later "Cut", every other record the earlier
\* "Dye"; attendance and client vary.
ProviderRecords ==
    {r \in YRecords :
        /\ ~r.deleted
        /\ r.attendance \in {0, 1}
        /\ r.length = 1
        /\ r.services = (IF r.id = 1 THEN <<"Cut">> ELSE <<"Dye">>)
        /\ r.datetime = (IF r.id = 1 THEN StartMillis \div 1000 - 2
                                     ELSE StartMillis \div 1000 - 3)}

(***************************************************************************)
(* firestore.service.ts: queries.  A query with limit(1) returns the       *)
(* matching document with the least document id; the result is a set with  *)
(* no element (null) or one.                                               *)
(***************************************************************************)
LimitOne(docs) ==
    IF docs = {} THEN {} ELSE {CHOOSE d \in docs : \A e \in docs : d.id <= e.id}

getYClientsUserMappingByClientId(clientId) ==
    LimitOne({m \in yclientsUsers : m.clientId = clientId})

getYClientsUserMappingByPhone(phone) ==
    LimitOne({m \in yclientsUsers : m.phone = phone})

getYClientsUserMappingByStaffId(staffId) ==
    LimitOne({m \in yclientsUsers : m.staffId = staffId})

getUserByYClientsId(yclientsId) ==
    LimitOne({u \in users : u.yclientsId = yclientsId})

getYClientsChatMappingByRecordId(recordId) ==
    LimitOne({m \in yclientsChats : m.recordId = recordId})

getChatByYClientsIdNever(chatDocs, yclientsId) == {}

getChatByYClientsId(chatDocs, yclientsId) ==
    LimitOne({c \in chatDocs : c.yclientsId = yclientsId})

getAllYClientsChatMappings == SetToSortedSeq({m.id : m \in yclientsChats})

ChatMappingById(id) == CHOOSE m \in yclientsChats : m.id = id

\* The sub-ledger of one chat mapping, in document-id (record id) order.
getYClientsRecordsByChat(chatId) ==
    LET docs == {r \in yclientsRecords : r.chatId = chatId}
        ids == SetToSortedSeq({r.recordId : r \in docs})
    IN  [i \in 1..Len(ids) |-> CHOOSE r \in docs : r.recordId = ids[i]]

createChatStampedLater(chatDocs, data) ==
    chatDocs \cup {[data EXCEPT !.updatedAt = @ + 1]}

\* createChat: docRef.set(chatData)
createChat(chatDocs, data) == chatDocs \cup {data}

\* updateChat that removes the document it should update.
updateChatRemoving(chatDocs, id, updates, nowMs) ==
    {c \in chatDocs : c.id # id}

\* updateChat: docRef.update({...updates, updatedAt: Date.now()})
updateChat(chatDocs, id, updates, nowMs) ==
    {IF c.id = id
       THEN [f \in DOMAIN c |->
               IF f = "updatedAt" THEN nowMs
               ELSE IF f \in DOMAIN updates THEN updates[f] ELSE c[f]]
       ELSE c : c \in chatDocs}

(***************************************************************************)
(* sync-chats.functions.ts: mapYClientsUsersToUserIds.                     *)
(***************************************************************************)
\* The user ids (none or one) an identity-mapping lookup result leads to.
UserIdsOfMapping(mappingResult) ==
    IF mappingResult = {} THEN <<>>
    ELSE LET mapping == CHOOSE m \in mappingResult : TRUE
             userResult == getUserByYClientsId(mapping.id)
         IN  IF userResult = {} THEN <<>>
             ELSE <<(CHOOSE u \in userResult : TRUE).id>>

mapYClientsUsersToUserIdsStaffFirst(clientId, clientPhone, staffId, staffPhone) ==
    LET byClientId == getYClientsUserMappingByClientId(clientId)
        clientMapping ==
            IF byClientId = {} /\ clientPhone # ""
            THEN getYClientsUserMappingByPhone(clientPhone)
            ELSE byClientId
        byStaffId == getYClientsUserMappingByStaffId(staffId)
        staffMapping ==
            IF byStaffId = {} /\ staffPhone # ""
            THEN getYClientsUserMappingByPhone(staffPhone)
            ELSE byStaffId
    IN  UserIdsOfMapping(staffMapping) \o UserIdsOfMapping(clientMapping)

mapYClientsUsersToUserIdsIdOnly(clientId, clientPhone, staffId, staffPhone) ==
    UserIdsOfMapping(getYClientsUserMappingByClientId(clientId))
        \o UserIdsOfMapping(getYClientsUserMappingByStaffId(staffId))

mapYClientsUsersToUserIds(clientId, clientPhone, staffId, staffPhone) ==
    LET byClientId == getYClientsUserMappingByClientId(clientId)
        clientMapping ==
            IF byClientId = {} /\ clientPhone # ""
            THEN getYClientsUserMappingByPhone(clientPhone)
            ELSE byClientId
        byStaffId == getYClientsUserMappingByStaffId(staffId)
        staffMapping ==
            IF byStaffId = {} /\ staffPhone # ""
            THEN getYClientsUserMappingByPhone(staffPhone)
            ELSE byStaffId
    IN  UserIdsOfMapping(clientMapping) \o UserIdsOfMapping(staffMapping)

(***************************************************************************)
(* sync-chats.functions.ts: processYClientsChat.                           *)
(***************************************************************************)
needsUpdateUnsortedUsers(existingChat, status, title, date, userIds) ==
    \/ existingChat.status # status
    \/ existingChat.title # title
    \/ existingChat.date # date
    \/ existingChat.users # userIds

needsUpdate(existingChat, status, title, date, userIds) ==
    \/ existingChat.status # status
    \/ existingChat.title # title
    \/ existingChat.date # date
    \/ SortIds(existingChat.users) # SortIds(userIds)

\* One pass over a chat mapping: the kind of write it performs and the chats
\* collection and statistics it leaves.  tStatus and tInfo are the clock
\* readings of determineChatStatus and of findRecordForChatInfo; the write
\* happens at tInfo.  newId is the randomUUID() of a created chat.
processNonEmpty(chatMapping, records, tStatus, tInfo, newId) ==
    LET status == determineChatStatus(records, tStatus)
        recordInfo == findRecordForChatInfo(records, tInfo)
        title == OrNull(recordInfo.title)
        date == OrNull(recordInfo.date)
        userIds == mapYClientsUsersToUserIds(chatMapping.clientId,
                       chatMapping.clientPhone, chatMapping.staffId,
                       chatMapping.staffPhone)
        existing == getChatByYClientsId(chats, chatMapping.id)
    IN
    IF existing # {}
    THEN
      LET existingChat == CHOOSE c \in existing : TRUE
      IN  IF needsUpdate(existingChat, status, title, date, userIds)
          THEN [kind |-> "update",
                \* users.sort() has sorted the array in place
                chats |-> updateChat(chats, existingChat.id,
                    [status |-> status, title |-> title, date |-> date,
                     users |-> SortIds(userIds)], tInfo),
                stats |-> [stats EXCEPT !.chatsUpdated = @ + 1,
                                        !.chatsProcessed = @ + 1]]
          ELSE [kind |-> "skip", chats |-> chats,
                stats |-> [stats EXCEPT !.chatsProcessed = @ + 1]]
    ELSE [kind |-> "create",
          chats |-> createChat(chats,
              [id |-> newId, yclientsId |-> chatMapping.id,
               users |-> userIds, title |-> title, date |-> date,
               status |-> status, createdAt |-> tInfo, updatedAt |-> tInfo]),
          stats |-> [stats EXCEPT !.chatsCreated = @ + 1,
                                  !.chatsProcessed = @ + 1]]

processYClientsChatNoSkip(chatMapping, tStatus, tInfo, newId) ==
    processNonEmpty(chatMapping, getYClientsRecordsByChat(chatMapping.id),
                    tStatus, tInfo, newId)

processYClientsChat(chatMapping, tStatus, tInfo, newId) ==
    LET records == getYClientsRecordsByChat(chatMapping.id)
    IN  IF Len(records) = 0
        THEN [kind |-> "empty", chats |-> chats, stats |-> stats]
        ELSE processNonEmpty(chatMapping, records, tStatus, tInfo, newId)

NoOp == [kind |-> "other", m |-> 0, tStatus |-> 0, tInfo |-> 0]
ZeroChatSyncStats ==
    [chatsProcessed |-> 0, chatsCreated |-> 0, chatsUpdated |-> 0, errors |-> 0]
ZeroSyncStats == [recordsProcessed |-> 0, chatsCreated |-> 0, chatsUpdated |-> 0]

EmptySweepLog ==
    [listed |-> TRUE, read |-> {}, completed |-> {}, skipped |-> {},
     failed |-> {}]

FreeChatIds == ChatIds \ {c.id : c \in chats}
FreeMappingIds == MappingIds \ {m.id : m \in yclientsChats}

\* syncYClientsChatsToChats: the sweep starts and reads all chat mappings.
StartSweep ==
    /\ sweepPc = "idle" /\ syncPc = "idle"
    /\ sweepPc' = "loop"
    /\ sweepQueue' = getAllYClientsChatMappings
    /\ stats' = ZeroChatSyncStats
    /\ sweepLog' = [EmptySweepLog EXCEPT
                      !.read = {m.id : m \in yclientsChats}]
    /\ lastOp' = NoOp
    /\ UNCHANGED settled
    /\ UNCHANGED <<now, storeVars, syncVars, runs, notifVars>>

\* One iteration of the sweep's loop: processYClientsChat on the next mapping.
\* The clock may advance between the pass's two readings of it.
SweepStep(advances) ==
    /\ sweepPc = "loop" /\ sweepQueue # <<>>
    /\ \E adv \in advances :
       \E newId \in (IF FreeChatIds = {} THEN {0} ELSE FreeChatIds) :
         LET chatMapping == ChatMappingById(Head(sweepQueue))
             pass == processYClientsChat(chatMapping, now, now + adv, newId)
         IN  /\ now + adv \in ClockValues
             /\ pass.kind = "create" => newId # 0
             /\ chats' = pass.chats
             /\ stats' = pass.stats
             /\ sweepLog' = IF pass.kind = "empty"
                             THEN [sweepLog EXCEPT
                                     !.skipped = @ \cup {chatMapping.id}]
                             ELSE [sweepLog EXCEPT
                                     !.completed = @ \cup {chatMapping.id}]
             /\ now' = now + adv
             /\ lastOp' = [kind |-> pass.kind, m |-> chatMapping.id,
                           tStatus |-> now, tInfo |-> now + adv]
             /\ settled' = IF adv = 0 THEN settled \cup {chatMapping.id} ELSE {}
    /\ sweepQueue' = Tail(sweepQueue)
    /\ UNCHANGED <<yclientsChats, yclientsRecords, yclientsUsers, users,
                   sweepPc, syncVars, runs, notifVars>>

\* The sweep has processed every mapping it read.
EndSweep ==
    /\ sweepPc = "loop" /\ sweepQueue = <<>>
    /\ sweepPc' = "idle"
    /\ stats' = ZeroChatSyncStats
    /\ sweepLog' = EmptySweepLog
    /\ lastOp' = NoOp
    /\ UNCHANGED settled
    /\ UNCHANGED <<now, storeVars, sweepQueue, syncVars, runs, notifVars>>

\* getAllYClientsChatMappings throws: the catch of the sweep counts one error
\* and no mapping is processed.
StartSweepFault ==
    /\ sweepPc = "idle" /\ syncPc = "idle"
    /\ sweepPc' = "loop"
    /\ sweepQueue' = <<>>
    /\ stats' = [ZeroChatSyncStats EXCEPT !.errors = @ + 1]
    /\ sweepLog' = [EmptySweepLog EXCEPT !.listed = FALSE]
    /\ lastOp' = NoOp
    /\ UNCHANGED settled
    /\ UNCHANGED <<now, storeVars, syncVars, runs, notifVars>>

SweepFaultAborting ==
    /\ sweepPc = "loop" /\ sweepQueue # <<>>
    /\ \E written \in BOOLEAN :
         LET chatMapping == ChatMappingById(Head(sweepQueue))
             pass == processYClientsChat(chatMapping, now, now, 0)
         IN  /\ written => pass.kind = "update"
             /\ chats' = IF written THEN pass.chats ELSE chats
             /\ stats' = [stats EXCEPT !.errors = @ + 1]
             /\ sweepLog' = [sweepLog EXCEPT !.failed = @ \cup {chatMapping.id}]
             /\ lastOp' = [kind |-> "error", m |-> chatMapping.id,
                           tStatus |-> now, tInfo |-> now]
             /\ settled' = {}
    /\ sweepQueue' = <<>>
    /\ UNCHANGED <<now, yclientsChats, yclientsRecords, yclientsUsers, users,
                   sweepPc, syncVars, runs, notifVars>>

\* One iteration of the sweep's loop in which a store call of
\* processYClientsChat throws: a read, a write that is not applied, or the
\* read updateChat makes after its write was applied.  The catch of
\* processYClientsChat counts one error and the loop goes on.
SweepFault ==
    /\ sweepPc = "loop" /\ sweepQueue # <<>>
    /\ \E written \in BOOLEAN :
         LET chatMapping == ChatMappingById(Head(sweepQueue))
             pass == processYClientsChat(chatMapping, now, now, 0)
         IN  /\ written => pass.kind = "update"
             /\ chats' = IF written THEN pass.chats ELSE chats
             /\ stats' = [stats EXCEPT !.errors = @ + 1]
             /\ sweepLog' = [sweepLog EXCEPT !.failed = @ \cup {chatMapping.id}]
             /\ lastOp' = [kind |-> "error", m |-> chatMapping.id,
                           tStatus |-> now, tInfo |-> now]
             /\ settled' = {}
    /\ sweepQueue' = Tail(sweepQueue)
    /\ UNCHANGED <<now, yclientsChats, yclientsRecords, yclientsUsers, users,
                   sweepPc, syncVars, runs, notifVars>>

\* Time passes.
Tick ==
    /\ now + TickMillis \in ClockValues
    /\ now' = now + TickMillis
    /\ lastOp' = NoOp
    /\ settled' = {}
    /\ UNCHANGED <<storeVars, sweepVars, syncVars, runs, notifVars>>

(***************************************************************************)
(* sync.functions.ts: the on-demand sync (syncChats).                      *)
(***************************************************************************)
getChatStatusFromRecord(record) ==
    IF record.attendance = 1 THEN "archived" ELSE "active"

getChatTitleFromRecord(record) ==
    IF Len(record.services) > 0 THEN JStr(record.services[1]) ELSE JNull

loadChatParticipants(record) ==
    LET staffIds ==
            IF record.staff_id # 0
            THEN UserIdsOfMapping(getYClientsUserMappingByStaffId(record.staff_id))
            ELSE <<>>
        byPhone == getYClientsUserMappingByPhone(record.client.phone)
        clientIds ==
            IF record.client.present /\ record.client.phone # ""
            THEN IF byPhone # {} THEN UserIdsOfMapping(byPhone)
                 ELSE IF record.client.id # 0
                      THEN UserIdsOfMapping(
                               getYClientsUserMappingByClientId(record.client.id))
                      ELSE <<>>
            ELSE <<>>
    IN  staffIds \o clientIds

\* updateExistingChat that writes an empty participant list with the update.
updateExistingChatClearingUsers(record, chatMapping, chatStatus, chatTitle, nowMs) ==
    LET existing == getChatByYClientsId(chats, chatMapping.id)
    IN  IF existing # {}
        THEN [updated |-> TRUE,
              chats |-> updateChat(chats, (CHOOSE c \in existing : TRUE).id,
                            [title |-> chatTitle, status |-> chatStatus,
                             users |-> <<>>], nowMs)]
        ELSE [updated |-> FALSE, chats |-> chats]

\* updateExistingChat: the chats collection it leaves and whether it updated.
updateExistingChat(record, chatMapping, chatStatus, chatTitle, nowMs) ==
    LET existing == getChatByYClientsId(chats, chatMapping.id)
    IN  IF existing # {}
        THEN [updated |-> TRUE,
              chats |-> updateChat(chats, (CHOOSE c \in existing : TRUE).id,
                            [title |-> chatTitle, status |-> chatStatus], nowMs)]
        ELSE [updated |-> FALSE, chats |-> chats]

createNewChatAlways(record, chatTitle, chatUserIds, mappingId, chatId, nowMs) ==
    [created |-> TRUE,
     yclientsChats |-> yclientsChats \cup
         {[id |-> mappingId, clientId |-> record.client.id,
           clientPhone |-> record.client.phone,
           staffId |-> record.staff_id, staffPhone |-> "",
           recordId |-> record.id]},
     chats |-> createChat(chats,
         [id |-> chatId, yclientsId |-> mappingId, users |-> chatUserIds,
          title |-> chatTitle, date |-> JUndefined, status |-> "new",
          createdAt |-> nowMs, updatedAt |-> nowMs])]

\* createNewChat: the collections it leaves and whether it created.  The
\* created chat has no date field.
createNewChat(record, chatTitle, chatUserIds, mappingId, chatId, nowMs) ==
    IF ~record.client.present
    THEN [created |-> FALSE, yclientsChats |-> yclientsChats, chats |-> chats]
    ELSE [created |-> TRUE,
          yclientsChats |-> yclientsChats \cup
              {[id |-> mappingId, clientId |-> record.client.id,
                clientPhone |-> record.client.phone,
                staffId |-> record.staff_id, staffPhone |-> "",
                recordId |-> record.id]},
          chats |-> createChat(chats,
              [id |-> chatId, yclientsId |-> mappingId, users |-> chatUserIds,
               title |-> chatTitle, date |-> JUndefined, status |-> "new",
               createdAt |-> nowMs, updatedAt |-> nowMs])]

processRecord(record, mappingId, chatId, nowMs) ==
    LET chatMapping == getYClientsChatMappingByRecordId(record.id)
        chatStatus == getChatStatusFromRecord(record)
        chatTitle == getChatTitleFromRecord(record)
        chatUserIds == loadChatParticipants(record)
    IN  IF chatMapping # {}
        THEN LET upd == updateExistingChat(record,
                            CHOOSE m \in chatMapping : TRUE,
                            chatStatus, chatTitle, nowMs)
             IN  [kind |-> IF upd.updated THEN "syncUpdate" ELSE "syncNoChat",
                  yclientsChats |-> yclientsChats,
                  chats |-> upd.chats,
                  syncStats |-> [syncStats EXCEPT
                      !.chatsUpdated = IF upd.updated THEN @ + 1 ELSE @,
                      !.recordsProcessed = @ + 1]]
        ELSE LET new == createNewChat(record, chatTitle, chatUserIds,
                                      mappingId, chatId, nowMs)
             IN  [kind |-> IF new.created THEN "syncCreate" ELSE "syncSkip",
                  yclientsChats |-> new.yclientsChats,
                  chats |-> new.chats,
                  syncStats |-> [syncStats EXCEPT
                      !.chatsCreated = IF new.created THEN @ + 1 ELSE @,
                      !.recordsProcessed = @ + 1]]

\* A response: the HTTP status and the fields of its JSON body (success is
\* "absent" when the body has no such field).
ErrorResponse(status, message) ==
    [status |-> status, success |-> "false", error |-> JStr(message),
     errorCode |-> JNum(status), stats |-> ZeroSyncStats]

NoContentResponse ==
    [status |-> 204, success |-> "absent", error |-> JUndefined,
     errorCode |-> JUndefined, stats |-> ZeroSyncStats]

SyncedResponse(syncedStats) ==
    [status |-> 200, success |-> "true", error |-> JUndefined,
     errorCode |-> JUndefined, stats |-> syncedStats]

\* validatePostMethod without the preflight branch.
validatePostMethodNoPreflight(method) ==
    IF method # "POST"
    THEN <<ErrorResponse(405, "Method not allowed. Use POST.")>>
    ELSE <<>>

\* validatePostMethod: the response it sends, none when the method is POST.
validatePostMethod(method) ==
    IF method = "OPTIONS" THEN <<NoContentResponse>>
    ELSE IF method # "POST"
    THEN <<ErrorResponse(405, "Method not allowed. Use POST.")>>
    ELSE <<>>

\* validateSyncRequest: the response it sends, none when userId is valid.
validateSyncRequest(userId) ==
    IF Falsy(userId)
    THEN <<ErrorResponse(400, "Missing required field: userId")>>
    ELSE IF userId.t # "string"
    THEN <<ErrorResponse(400, "Invalid field type. userId must be a string")>>
    ELSE <<>>

\* The string naming the user document id.
UserIdString(id) == [t |-> "string", n |-> id, s |-> "id"]

getYClientsUserMapping(id) == {m \in yclientsUsers : m.id = id}

Methods == {"OPTIONS", "GET", "POST"}
Fetches == {"loaded", "failed"}
RequestUserIds ==
    {JUndefined, JStr(""), JNum(7)} \cup {UserIdString(id) : id \in 1..3}
SyncRequests == [method : Methods, userId : RequestUserIds, fetch : Fetches]

\* syncChats up to its loop: the response it sends, none when the records
\* were loaded and the loop is entered.
syncChatsValidation(request) ==
    LET method == validatePostMethod(request.method)
        validation == validateSyncRequest(request.userId)
        user == {u \in users : u.id = request.userId.n}
        currentUserMapping ==
            getYClientsUserMapping((CHOOSE u \in user : TRUE).yclientsId)
    IN  IF method # <<>> THEN method
        ELSE IF validation # <<>> THEN validation
        ELSE IF user = {} THEN <<ErrorResponse(404, "User not found")>>
        ELSE IF currentUserMapping = {}
        THEN <<ErrorResponse(404, "YClients user mapping not found")>>
        ELSE IF request.fetch = "failed"
        THEN <<ErrorResponse(500, "Failed to load records from YClients")>>
        ELSE <<>>

NoRequest == [method |-> "none", userId |-> JUndefined, fetch |-> "none"]
NoRecord ==
    [id |-> 0, staff_id |-> 0, client |-> NoClient, services |-> <<>>,
     datetime |-> 0, attendance |-> 0, length |-> 0, deleted |-> FALSE]
\* No record fetch was made.
NoFetch ==
    [staffRecords |-> 0, allRecords |-> 0, samePhone |-> {}, count |-> 0,
     failing |-> 0, error |-> FALSE, data |-> <<>>, requests |-> 0]
EmptySyncLog ==
    [request |-> NoRequest, loaded |-> 0, ok |-> 0, failed |-> 0,
     record |-> NoRecord, fetch |-> NoFetch]

\* syncChats: a request arrives; it is answered at once or its records are
\* loaded and the loop is entered.
SyncRequest ==
    /\ syncPc = "idle" /\ sweepPc = "idle"
    /\ \E request \in SyncRequests : \E loaded \in 0..MaxRequestRecords :
         LET sent == syncChatsValidation(request)
         IN  /\ sent # <<>> => loaded = 0
             /\ syncPc' = IF sent = <<>> THEN "loop" ELSE "idle"
             /\ syncLeft' = loaded
             /\ syncLog' = [EmptySyncLog EXCEPT !.request = request,
                                                !.loaded = loaded]
             /\ responses' = sent
    /\ syncStats' = ZeroSyncStats
    /\ lastOp' = NoOp
    /\ UNCHANGED settled
    /\ UNCHANGED <<now, storeVars, sweepVars, runs, notifVars>>

\* syncChats: a valid request of a known user; its records are loaded.
StartSync ==
    /\ syncPc = "idle" /\ sweepPc = "idle"
    /\ syncPc' = "loop"
    /\ syncLeft' \in 0..MaxSyncRecords
    /\ syncStats' = ZeroSyncStats
    /\ syncLog' = [EmptySyncLog EXCEPT !.loaded = syncLeft']
    /\ responses' = <<>>
    /\ lastOp' = NoOp
    /\ UNCHANGED settled
    /\ UNCHANGED <<now, storeVars, sweepVars, runs, notifVars>>

\* One iteration of syncChats' loop: processRecord on the next loaded record.
SyncStep ==
    /\ syncPc = "loop" /\ syncLeft > 0
    /\ \E record \in ProviderRecords :
       \E mappingId \in (IF FreeMappingIds = {} THEN {0} ELSE FreeMappingIds) :
       \E chatId \in (IF FreeChatIds = {} THEN {0} ELSE FreeChatIds) :
         LET res == processRecord(record, mappingId, chatId, now)
         IN  /\ res.kind = "syncCreate" => (mappingId # 0 /\ chatId # 0)
             /\ yclientsChats' = res.yclientsChats
             /\ chats' = res.chats
             /\ syncStats' = res.syncStats
             /\ syncLog' = [syncLog EXCEPT !.ok = @ + 1, !.record = record]
             /\ lastOp' = [kind |-> res.kind, m |-> record.id,
                           tStatus |-> now, tInfo |-> now]
             /\ settled' = IF chats' = chats THEN settled
                           ELSE settled \ {c.yclientsId : c \in chats \ chats'}
    /\ syncLeft' = syncLeft - 1
    /\ UNCHANGED <<now, yclientsRecords, yclientsUsers, users, syncPc,
                   responses, sweepVars, runs, notifVars>>

SyncFaultAborting ==
    /\ syncPc = "loop" /\ syncLeft > 0
    /\ \E record \in ProviderRecords : \E written \in BOOLEAN :
       \E mappingId \in (IF FreeMappingIds = {} THEN {0} ELSE FreeMappingIds) :
         LET res == processRecord(record, mappingId, 0, now)
         IN  /\ written => res.kind \in {"syncCreate", "syncUpdate"}
             /\ (written /\ res.kind = "syncCreate") => mappingId # 0
             /\ yclientsChats' = IF written /\ res.kind = "syncCreate"
                                 THEN res.yclientsChats ELSE yclientsChats
             /\ chats' = IF written /\ res.kind = "syncUpdate"
                         THEN res.chats ELSE chats
             /\ lastOp' = [kind |-> "syncError", m |-> record.id,
                           tStatus |-> now, tInfo |-> now]
             /\ syncLog' = [syncLog EXCEPT !.failed = @ + 1,
                                           !.record = record]
             /\ settled' = IF chats' = chats THEN settled
                           ELSE settled \ {c.yclientsId : c \in chats \ chats'}
    /\ syncLeft' = 0
    /\ UNCHANGED <<now, yclientsRecords, yclientsUsers, users, syncPc,
                   syncStats, responses, sweepVars, runs, notifVars>>

\* One iteration of syncChats' loop in which a store call of processRecord
\* throws: a read, a write that is not applied, the createChat that follows
\* an applied createYClientsChatMapping, or the read updateChat makes after
\* its write was applied.  The catch of the loop logs the error and the loop
\* goes on; no counter moves.
SyncFault ==
    /\ syncPc = "loop" /\ syncLeft > 0
    /\ \E record \in ProviderRecords : \E written \in BOOLEAN :
       \E mappingId \in (IF FreeMappingIds = {} THEN {0} ELSE FreeMappingIds) :
         LET res == processRecord(record, mappingId, 0, now)
         IN  /\ written => res.kind \in {"syncCreate", "syncUpdate"}
             /\ (written /\ res.kind = "syncCreate") => mappingId # 0
             /\ yclientsChats' = IF written /\ res.kind = "syncCreate"
                                 THEN res.yclientsChats ELSE yclientsChats
             /\ chats' = IF written /\ res.kind = "syncUpdate"
                         THEN res.chats ELSE chats
             /\ lastOp' = [kind |-> "syncError", m |-> record.id,
                           tStatus |-> now, tInfo |-> now]
             /\ syncLog' = [syncLog EXCEPT !.failed = @ + 1,
                                           !.record = record]
             /\ settled' = IF chats' = chats THEN settled
                           ELSE settled \ {c.yclientsId : c \in chats \ chats'}
    /\ syncLeft' = syncLeft - 1
    /\ UNCHANGED <<now, yclientsRecords, yclientsUsers, users, syncPc,
                   syncStats, responses, sweepVars, runs, notifVars>>

\* syncChats answers 200 with the statistics.
EndSync ==
    /\ syncPc = "loop" /\ syncLeft = 0
    /\ syncPc' = "idle"
    /\ syncStats' = ZeroSyncStats
    /\ responses' = Append(responses, SyncedResponse(syncStats))
    /\ syncLog' = [syncLog EXCEPT !.record = NoRecord]
    /\ lastOp' = NoOp
    /\ UNCHANGED settled
    /\ UNCHANGED <<now, storeVars, syncLeft, sweepVars, runs, notifVars>>

(***************************************************************************)
(* The per-minute record sync (spec sections 4.1 and 4.2): the chat        *)
(* mapping resolver and the record reconciler, for one provider record.    *)
(***************************************************************************)
resolveChatMapping(staffId, clientId, clientPhone) ==
    LimitOne({m \in yclientsChats :
                 /\ m.staffId = staffId
                 /\ (m.clientId = clientId \/ m.clientPhone = clientPhone)})

normalizeRecord(chatId, record) ==
    [chatId |-> chatId, recordId |-> record.id, deleted |-> record.deleted,
     serviceTitle |-> IF Len(record.services) > 0
                      THEN JStr(record.services[1]) ELSE JNull,
     datetime |-> dateStringToTimestamp(record.datetime),
     attendance |-> record.attendance, length |-> record.length]

upsertRecord(chatId, record) ==
    LET normalized == normalizeRecord(chatId, record)
        stored == {r \in yclientsRecords :
                      r.chatId = chatId /\ r.recordId = record.id}
    IN  IF stored = {normalized} THEN yclientsRecords
        ELSE (yclientsRecords \ stored) \cup {normalized}

RecordSync ==
    /\ sweepPc = "idle" /\ syncPc = "idle"
    /\ \E record \in ProviderRecords :
       \E mappingId \in (IF FreeMappingIds = {} THEN {0} ELSE FreeMappingIds) :
         /\ record.client.present
         /\ LET found == resolveChatMapping(record.staff_id, record.client.id,
                                            record.client.phone)
            IN  IF found # {}
                THEN /\ yclientsRecords' =
                            upsertRecord((CHOOSE m \in found : TRUE).id, record)
                     /\ UNCHANGED yclientsChats
                ELSE /\ mappingId # 0
                     /\ yclientsChats' = yclientsChats \cup
                            {[id |-> mappingId, clientId |-> record.client.id,
                              clientPhone |-> record.client.phone,
                              staffId |-> record.staff_id,
                              staffPhone |-> StaffPhone, recordId |-> 0]}
                     /\ yclientsRecords' = upsertRecord(mappingId, record)
    /\ lastOp' = NoOp
    /\ settled' = settled \ {r.chatId : r \in yclientsRecords' \ yclientsRecords}
    /\ UNCHANGED <<now, chats, yclientsUsers, users, sweepVars, syncVars, runs, notifVars>>

(***************************************************************************)
(* sync-chats.functions.ts: the notification dispatcher                    *)
(* (processPendingNotifications).  A Notification is [id, toUserId, chatId, *)
(* messageId, status, updatedAt], chatId or messageId 0 when it has none;  *)
(* a Message is [id, chatId, status, updatedAt]; a user of the dispatcher  *)
(* also has fcm_token ("" when it has none) and isNotificationsEnabled     *)
(* ("true", "false" or "null").                                            *)
(***************************************************************************)
getUser(id) == {u \in users : u.id = id}

getMessage(chatId, messageId) ==
    {m \in messages : m.chatId = chatId /\ m.id = messageId}

getPendingNotifications ==
    LET ids == SetToSortedSeq({n.id : n \in notificationsPending})
    IN  [i \in 1..Len(ids) |-> CHOOSE n \in notificationsPending : n.id = ids[i]]

\* deleteNotification(id, true): the document leaves the pending collection.
deleteNotification(id) == {n \in notificationsPending : n.id # id}

\* firestoreService.moveNotificationToSent: the document is written to the
\* sent collection and leaves the pending collection.
storeMoveNotificationToSent(notification) ==
    [pending |-> {n \in notificationsPending : n.id # notification.id},
     sent |-> {n \in notificationsSent : n.id # notification.id}
                 \cup {notification}]

moveNotificationToSentKeepingPending(notification, status, nowMs) ==
    [pending |-> notificationsPending,
     sent |-> notificationsSent
                 \cup {[notification EXCEPT !.status = status, !.updatedAt = nowMs]}]

moveNotificationToSent(notification, status, nowMs) ==
    storeMoveNotificationToSent(
        [notification EXCEPT !.status = status, !.updatedAt = nowMs])

oneMinuteInMillis == 60 * 1000

messageGateIgnoringRead(notification, nowMs) ==
    IF notification.messageId # 0 /\ notification.chatId # 0
    THEN LET found == getMessage(notification.chatId, notification.messageId)
             message == CHOOSE m \in found : TRUE
         IN  IF found = {} THEN "missing"
             ELSE IF nowMs - message.updatedAt < oneMinuteInMillis THEN "recent"
             ELSE "pass"
    ELSE "pass"

messageGateNoDebounce(notification, nowMs) ==
    IF notification.messageId # 0 /\ notification.chatId # 0
    THEN LET found == getMessage(notification.chatId, notification.messageId)
             message == CHOOSE m \in found : TRUE
         IN  IF found = {} THEN "missing"
             ELSE IF message.status = "read" THEN "read"
             ELSE "pass"
    ELSE "pass"

messageGateHoldingAtOneMinute(notification, nowMs) ==
    IF notification.messageId # 0 /\ notification.chatId # 0
    THEN LET found == getMessage(notification.chatId, notification.messageId)
             message == CHOOSE m \in found : TRUE
         IN  IF found = {} THEN "missing"
             ELSE IF message.status = "read" THEN "read"
             ELSE IF nowMs - message.updatedAt <= oneMinuteInMillis THEN "recent"
             ELSE "pass"
    ELSE "pass"

messageGateDebounceFirst(notification, nowMs) ==
    IF notification.messageId # 0 /\ notification.chatId # 0
    THEN LET found == getMessage(notification.chatId, notification.messageId)
             message == CHOOSE m \in found : TRUE
         IN  IF found = {} THEN "missing"
             ELSE IF nowMs - message.updatedAt < oneMinuteInMillis THEN "recent"
             ELSE IF message.status = "read" THEN "read"
             ELSE "pass"
    ELSE "pass"

\* messageGate that holds a notification for as long as its message is unread.
messageGateHoldingUnread(notification, nowMs) ==
    IF notification.messageId # 0 /\ notification.chatId # 0
    THEN LET found == getMessage(notification.chatId, notification.messageId)
             message == CHOOSE m \in found : TRUE
         IN  IF found = {} THEN "missing"
             ELSE IF message.status = "read" THEN "read"
             ELSE "recent"
    ELSE "pass"

\* Steps 2 to 4 of processNotification: what the referenced message lets the
\* notification do.
messageGate(notification, nowMs) ==
    IF notification.messageId # 0 /\ notification.chatId # 0
    THEN LET found == getMessage(notification.chatId, notification.messageId)
             message == CHOOSE m \in found : TRUE
         IN  IF found = {} THEN "missing"
             ELSE IF message.status = "read" THEN "read"
             ELSE IF nowMs - message.updatedAt < oneMinuteInMillis THEN "recent"
             ELSE "pass"
    ELSE "pass"

\* const messageAge = now - message.updatedAt (-1 without a message)
messageAge(notification, nowMs) ==
    LET found == getMessage(notification.chatId, notification.messageId)
    IN  IF found = {} THEN 0 - 1
        ELSE nowMs - (CHOOSE m \in found : TRUE).updatedAt

shouldSendFcmWithToken(user) == user.fcm_token # ""

\* user.fcm_token && user.isNotificationsEnabled !== false
shouldSendFcm(user) ==
    user.fcm_token # "" /\ user.isNotificationsEnabled # "false"

\* notification.service.ts: messaging.send resolves or throws; the exception
\* is caught and false returned.
Gateways == {"delivered", "throws"}
sendPushNotification(gateway) == gateway = "delivered"

terminalStatusAlwaysSent(fcmSuccess) == "sent"

\* const status = fcmSuccess ? "sent" : "failed"
terminalStatus(fcmSuccess) == IF fcmSuccess THEN "sent" ELSE "failed"

\* processNotification: the outcome, the collections it leaves, and whether
\* the push gateway was called.
processNotification(notification, gateway, nowMs) ==
    LET user == getUser(notification.toUserId)
        gate == messageGate(notification, nowMs)
        Removed(why) ==
            [outcome |-> why, pending |-> deleteNotification(notification.id),
             sent |-> notificationsSent, pushed |-> FALSE]
        Moved(status, pushed) ==
            LET moved == moveNotificationToSent(notification, status, nowMs)
            IN  [outcome |-> status, pending |-> moved.pending,
                 sent |-> moved.sent, pushed |-> pushed]
    IN  IF user = {} THEN Removed("removedNoUser")
        ELSE IF gate = "missing" THEN Removed("removedNoMessage")
        ELSE IF gate = "read" THEN Removed("removedRead")
        ELSE IF gate = "recent"
        THEN [outcome |-> "held", pending |-> notificationsPending,
              sent |-> notificationsSent, pushed |-> FALSE]
        ELSE IF ~shouldSendFcm(CHOOSE u \in user : TRUE)
        THEN Moved("sent", FALSE)
        ELSE Moved(terminalStatus(sendPushNotification(gateway)), TRUE)

NoNotif == [id |-> 0, outcome |-> "other", pushed |-> FALSE,
            gateway |-> "none", at |-> 0, wasHeld |-> FALSE, age |-> 0 - 1]

EmptyLog == [read |-> {}, done |-> {}, failed |-> {}]

NoNotifications ==
    /\ notificationsPending = {}
    /\ notificationsSent = {}
    /\ messages = {}
    /\ dispatchPc = "idle"
    /\ dispatchQueue = <<>>
    /\ pushAttempts = {}
    /\ heldQuiet = {}
    /\ terminalIds = {}
    /\ dispatchLog = EmptyLog
    /\ lastNotif = NoNotif

dispatchFrame ==
    <<yclientsChats, yclientsRecords, chats, yclientsUsers, users, sweepVars,
      syncVars, lastOp, settled, runs>>

\* processPendingNotifications reads the pending notifications; with none it
\* returns at once.
StartDispatch ==
    /\ dispatchPc = "idle"
    /\ notificationsPending # {}
    /\ dispatchPc' = "loop"
    /\ dispatchQueue' = getPendingNotifications
    /\ dispatchLog' = [EmptyLog EXCEPT
                         !.read = {n.id : n \in notificationsPending}]
    /\ lastNotif' = NoNotif
    /\ UNCHANGED <<now, dispatchFrame, notificationsPending, notificationsSent,
                   messages, pushAttempts, heldQuiet, terminalIds>>

\* One iteration of the dispatch loop: processNotification on the next
\* notification read.
DispatchStep ==
    /\ dispatchPc = "loop" /\ dispatchQueue # <<>>
    /\ \E gateway \in Gateways :
         LET notification == Head(dispatchQueue)
             res == processNotification(notification, gateway, now)
         IN  /\ ~res.pushed => gateway = "delivered"
             /\ notificationsPending' = res.pending
             /\ notificationsSent' = res.sent
             /\ pushAttempts' = IF res.pushed
                                THEN pushAttempts \cup {notification.id}
                                ELSE pushAttempts
             /\ heldQuiet' = IF res.outcome = "held"
                             THEN heldQuiet \cup {notification.id}
                             ELSE heldQuiet \ {notification.id}
             /\ terminalIds' = IF res.outcome = "held" THEN terminalIds
                               ELSE terminalIds \cup {notification.id}
             /\ lastNotif' = [id |-> notification.id, outcome |-> res.outcome,
                              pushed |-> res.pushed,
                              gateway |-> IF res.pushed THEN gateway ELSE "none",
                              at |-> now,
                              wasHeld |-> notification.id \in heldQuiet,
                              age |-> messageAge(notification, now)]
    /\ dispatchQueue' = Tail(dispatchQueue)
    /\ dispatchLog' = [dispatchLog EXCEPT
                         !.done = @ \cup {Head(dispatchQueue).id}]
    /\ UNCHANGED <<now, dispatchFrame, messages, dispatchPc>>

DispatchFaultAborting ==
    /\ dispatchPc = "loop" /\ dispatchQueue # <<>>
    /\ \E gateway \in Gateways : \E reached \in BOOLEAN :
         LET notification == Head(dispatchQueue)
             res == processNotification(notification, gateway, now)
             pushed == res.pushed /\ reached
         IN  /\ ~res.pushed => (gateway = "delivered" /\ ~reached)
             /\ pushAttempts' = IF pushed
                                THEN pushAttempts \cup {notification.id}
                                ELSE pushAttempts
             /\ heldQuiet' = heldQuiet \ {notification.id}
             /\ lastNotif' = [id |-> notification.id, outcome |-> "error",
                              pushed |-> pushed,
                              gateway |-> IF pushed THEN gateway ELSE "none",
                              at |-> now,
                              wasHeld |-> notification.id \in heldQuiet,
                              age |-> messageAge(notification, now)]
    /\ dispatchQueue' = <<>>
    /\ dispatchLog' = [dispatchLog EXCEPT
                         !.failed = @ \cup {Head(dispatchQueue).id}]
    /\ UNCHANGED <<now, dispatchFrame, notificationsPending, notificationsSent,
                   messages, dispatchPc, terminalIds>>

\* One iteration of the dispatch loop in which a store call of
\* processNotification throws, before the push gateway is called or after it:
\* nothing is written, the catch of the loop logs the error and the loop goes
\* on with the next notification.
DispatchFault ==
    /\ dispatchPc = "loop" /\ dispatchQueue # <<>>
    /\ \E gateway \in Gateways : \E reached \in BOOLEAN :
         LET notification == Head(dispatchQueue)
             res == processNotification(notification, gateway, now)
             pushed == res.pushed /\ reached
         IN  /\ ~res.pushed => (gateway = "delivered" /\ ~reached)
             /\ pushAttempts' = IF pushed
                                THEN pushAttempts \cup {notification.id}
                                ELSE pushAttempts
             /\ heldQuiet' = heldQuiet \ {notification.id}
             /\ lastNotif' = [id |-> notification.id, outcome |-> "error",
                              pushed |-> pushed,
                              gateway |-> IF pushed THEN gateway ELSE "none",
                              at |-> now,
                              wasHeld |-> notification.id \in heldQuiet,
                              age |-> messageAge(notification, now)]
    /\ dispatchQueue' = Tail(dispatchQueue)
    /\ dispatchLog' = [dispatchLog EXCEPT
                         !.failed = @ \cup {Head(dispatchQueue).id}]
    /\ UNCHANGED <<now, dispatchFrame, notificationsPending, notificationsSent,
                   messages, dispatchPc, terminalIds>>

\* The dispatch has processed every notification it read.
EndDispatch ==
    /\ dispatchPc = "loop" /\ dispatchQueue = <<>>
    /\ dispatchPc' = "idle"
    /\ lastNotif' = NoNotif
    /\ UNCHANGED <<now, dispatchFrame, notificationsPending, notificationsSent,
                   messages, dispatchQueue, pushAttempts, heldQuiet, terminalIds,
                   dispatchLog>>

\* The chat application marks a message read, or edits it (out of the
\* engine's hands): status and updatedAt change.
TouchMessage ==
    /\ \E message \in messages : \E status \in {message.status, "read"} :
         /\ message.status # "read"
         /\ (status = message.status => message.updatedAt # now)
         /\ messages' = (messages \ {message}) \cup
                {[message EXCEPT !.status = status, !.updatedAt = now]}
         /\ heldQuiet' = heldQuiet \
                {n.id : n \in {p \in notificationsPending :
                                 p.chatId = message.chatId
                                 /\ p.messageId = message.id}}
    /\ lastNotif' = NoNotif
    /\ UNCHANGED <<now, dispatchFrame, notificationsPending, notificationsSent,
                   dispatchPc, dispatchQueue, pushAttempts, terminalIds,
                   dispatchLog>>

(***************************************************************************)
(* Initial state and the sequential specification: the jobs and requests   *)
(* run one after the other, each iteration of a job's loop is one step.    *)
(***************************************************************************)
IdleRuns == <<>>

Init ==
    /\ now = StartMillis
    /\ yclientsChats = {}
    /\ yclientsRecords = {}
    /\ chats = {}
    /\ yclientsUsers = {IdentityStaff}
    /\ users = {UserOfClient, UserOfStaff}
    /\ sweepPc = "idle"
    /\ sweepQueue = <<>>
    /\ stats = ZeroChatSyncStats
    /\ sweepLog = EmptySweepLog
    /\ syncPc = "idle"
    /\ syncLeft = 0
    /\ syncStats = ZeroSyncStats
    /\ syncLog = EmptySyncLog
    /\ responses = <<>>
    /\ lastOp = NoOp
    /\ settled = {}
    /\ runs = IdleRuns
    /\ NoNotifications

Next ==
    \/ RecordSync
    \/ StartSweep
    \/ SweepStep({0})
    \/ EndSweep
    \/ StartSync
    \/ SyncStep
    \/ EndSync

Spec == Init /\ [][Next]_vars

\* The on-demand specification: only syncChats requests reach the store.
NextSync ==
    \/ StartSync
    \/ SyncStep
    \/ EndSync

SpecSync == Init /\ [][NextSync]_vars

(***************************************************************************)
(* The projection specification: the store holds two chat mappings, one    *)
(* with an arbitrary sub-ledger and one with an empty sub-ledger, and the   *)
(* projection sweep runs again and again while time passes.                 *)
(***************************************************************************)
ResolvedMapping ==
    [id |-> 1, clientId |-> Client1.id, clientPhone |-> Client1.phone,
     staffId |-> StaffId, staffPhone |-> StaffPhone, recordId |-> 0]
FreshSyncMapping ==
    [id |-> 2, clientId |-> Client1.id, clientPhone |-> Client1.phone,
     staffId |-> StaffId, staffPhone |-> "", recordId |-> 2]

\* The records a sub-ledger entry can have been reconciled from.
LedgerSources(recordId) ==
    {r \in YRecords :
        /\ r.id = recordId
        /\ r.client = Client1
        /\ r.services \in {<<>>, IF recordId = 1 THEN <<"Cut">> ELSE <<"Dye">>}}

SubLedgers(chatId) ==
    LET Entries(recordId) ==
            {{}} \cup {{normalizeRecord(chatId, r)} : r \in LedgerSources(recordId)}
    IN  {a \cup b : a \in Entries(1), b \in Entries(2)}

\* The chat createNewChat made for FreshSyncMapping.
FreshSyncChat ==
    [id |-> 2, yclientsId |-> FreshSyncMapping.id, users |-> <<1, 2>>,
     title |-> JStr("Dye"), date |-> JUndefined, status |-> "new",
     createdAt |-> StartMillis, updatedAt |-> StartMillis]

\* Chats the store may hold for ResolvedMapping before the first pass.
StoredChats ==
    { {},
      {[id |-> 1, yclientsId |-> ResolvedMapping.id, users |-> <<1, 2>>,
        title |-> JStr("Cut"), date |-> JUndefined, status |-> "new",
        createdAt |-> StartMillis, updatedAt |-> StartMillis]},
      {[id |-> 1, yclientsId |-> ResolvedMapping.id, users |-> <<2, 1>>,
        title |-> JNull, date |-> JNull, status |-> "paused",
        createdAt |-> StartMillis, updatedAt |-> StartMillis]} }

InitProjection ==
    /\ now = StartMillis
    /\ yclientsChats = {ResolvedMapping, FreshSyncMapping}
    /\ yclientsRecords \in SubLedgers(ResolvedMapping.id)
    /\ \E stored \in StoredChats : chats = stored \cup {FreshSyncChat}
    /\ yclientsUsers = {IdentityClient, IdentityStaff}
    /\ users = {UserOfClient, UserOfStaff}
    /\ sweepPc = "idle"
    /\ sweepQueue = <<>>
    /\ stats = ZeroChatSyncStats
    /\ sweepLog = EmptySweepLog
    /\ syncPc = "idle"
    /\ syncLeft = 0
    /\ syncStats = ZeroSyncStats
    /\ syncLog = EmptySyncLog
    /\ responses = <<>>
    /\ lastOp = NoOp
    /\ settled = {}
    /\ runs = IdleRuns
    /\ NoNotifications

NextProjection ==
    \/ Tick
    \/ StartSweep
    \/ SweepStep({0, TickMillis})
    \/ EndSweep

SpecProjection == InitProjection /\ [][NextProjection]_vars

(***************************************************************************)
(* The overlap specification: two runs of processYClientsChat on the same  *)
(* chat mapping, with no coordination between them.  Every store read and  *)
(* every store write of a run is one step; the clock stands still.         *)
(***************************************************************************)
RunIds == {1, 2}

StartingRun ==
    [pc |-> "start", records |-> <<>>, status |-> "", title |-> JNull,
     date |-> JNull, userIds |-> <<>>, existing |-> {}]

InitOverlap ==
    /\ now = StartMillis
    /\ yclientsChats = {ResolvedMapping}
    /\ yclientsRecords \in SubLedgers(ResolvedMapping.id)
    /\ chats \in StoredChats
    /\ yclientsUsers = {IdentityClient, IdentityStaff}
    /\ users = {UserOfClient, UserOfStaff}
    /\ sweepPc = "idle"
    /\ sweepQueue = <<>>
    /\ stats = ZeroChatSyncStats
    /\ sweepLog = EmptySweepLog
    /\ syncPc = "idle"
    /\ syncLeft = 0
    /\ syncStats = ZeroSyncStats
    /\ syncLog = EmptySyncLog
    /\ responses = <<>>
    /\ lastOp = NoOp
    /\ settled = {}
    /\ runs = [p \in RunIds |-> StartingRun]
    /\ NoNotifications

\* getYClientsRecordsByChat, then status and display info from the records.
RunReadRecords(p) ==
    /\ runs[p].pc = "start"
    /\ LET records == getYClientsRecordsByChat(ResolvedMapping.id)
           recordInfo == findRecordForChatInfo(records, now)
       IN  runs' = [runs EXCEPT ![p] =
               IF Len(records) = 0
               THEN [@ EXCEPT !.pc = "done"]
               ELSE [@ EXCEPT !.pc = "users", !.records = records,
                        !.status = determineChatStatus(records, now),
                        !.title = OrNull(recordInfo.title),
                        !.date = OrNull(recordInfo.date)]]
    /\ UNCHANGED <<now, storeVars, sweepVars, syncVars, lastOp, settled, notifVars>>

\* mapYClientsUsersToUserIds: the identity and user lookups.
RunMapUsers(p) ==
    /\ runs[p].pc = "users"
    /\ runs' = [runs EXCEPT ![p] =
           [@ EXCEPT !.pc = "readChat",
                     !.userIds = mapYClientsUsersToUserIds(
                         ResolvedMapping.clientId, ResolvedMapping.clientPhone,
                         ResolvedMapping.staffId, ResolvedMapping.staffPhone)]]
    /\ UNCHANGED <<now, storeVars, sweepVars, syncVars, lastOp, settled, notifVars>>

\* getChatByYClientsId(chatMapping.id)
RunReadChat(p) ==
    /\ runs[p].pc = "readChat"
    /\ runs' = [runs EXCEPT ![p] =
           [@ EXCEPT !.pc = "write",
                     !.existing = getChatByYClientsId(chats, ResolvedMapping.id)]]
    /\ UNCHANGED <<now, storeVars, sweepVars, syncVars, lastOp, settled, notifVars>>

\* updateChat when the chat read needs an update, createChat when none was read.
RunWrite(p) ==
    /\ runs[p].pc = "write"
    /\ LET run == runs[p]
       IN  IF run.existing # {}
           THEN LET existingChat == CHOOSE c \in run.existing : TRUE
                IN  chats' =
                      IF needsUpdate(existingChat, run.status, run.title,
                                     run.date, run.userIds)
                      THEN updateChat(chats, existingChat.id,
                               [status |-> run.status, title |-> run.title,
                                date |-> run.date,
                                users |-> SortIds(run.userIds)], now)
                      ELSE chats
           ELSE \E newId \in FreeChatIds :
                  chats' = createChat(chats,
                      [id |-> newId, yclientsId |-> ResolvedMapping.id,
                       users |-> run.userIds, title |-> run.title,
                       date |-> run.date, status |-> run.status,
                       createdAt |-> now, updatedAt |-> now])
    /\ runs' = [runs EXCEPT ![p] = [@ EXCEPT !.pc = "done"]]
    /\ UNCHANGED <<now, yclientsChats, yclientsRecords, yclientsUsers, users,
                   sweepVars, syncVars, lastOp, settled, notifVars>>

NextOverlap ==
    \E p \in RunIds :
        \/ RunReadRecords(p)
        \/ RunMapUsers(p)
        \/ RunReadChat(p)
        \/ RunWrite(p)

SpecOverlap == InitOverlap /\ [][NextOverlap]_vars

(***************************************************************************)
(* The participants specification: one chat mapping with one record, any   *)
(* subset of the identity mappings and users below in the store, a chat    *)
(* with the derived status, title and date and some list of users, and the *)
(* projection sweep running again and again.                               *)
(***************************************************************************)
\* Identity mappings that match the mapping's client or staff by id only or
\* by phone only, and the users linked to them.
ClientByIdOnly == [IdentityClient EXCEPT !.phone = "x1"]
ClientByPhone == [id |-> 3, clientId |-> 9, phone |-> IdentityClient.phone, staffId |-> 0]
StaffByIdOnly == [IdentityStaff EXCEPT !.phone = "s9"]
StaffByPhone == [id |-> 4, clientId |-> 8, phone |-> IdentityStaff.phone, staffId |-> 0]
UserOfPhoneClient == [id |-> 3, yclientsId |-> 3]
UserOfPhoneStaff == [id |-> 4, yclientsId |-> 4]

IdentityPool == {ClientByIdOnly, ClientByPhone, StaffByIdOnly, StaffByPhone}
UserPool == {UserOfClient, UserOfStaff, UserOfPhoneClient, UserOfPhoneStaff}

\* The mapping with and without its phones.
ParticipantMappings ==
    {[ResolvedMapping EXCEPT !.clientPhone = cp, !.staffPhone = sp] :
        cp \in {"", ResolvedMapping.clientPhone},
        sp \in {"", ResolvedMapping.staffPhone}}

\* One pending appointment, "Cut", two seconds before the clock's first value.
PendingCut ==
    normalizeRecord(ResolvedMapping.id,
        [id |-> 1, staff_id |-> StaffId, client |-> Client1,
         services |-> <<"Cut">>, datetime |-> StartMillis \div 1000 - 2,
         attendance |-> 0, length |-> 1, deleted |-> FALSE])

StoredUserLists ==
    {<<>>, <<2>>, <<1, 2>>, <<2, 1>>, <<3, 4>>, <<4, 3>>, <<2, 4>>, <<4, 2>>}

\* Chats written by an earlier pass, before the clock's first value.
ProjectedChats ==
    {{}} \cup
    {{[id |-> 1, yclientsId |-> ResolvedMapping.id, users |-> stored,
       title |-> PendingCut.serviceTitle,
       date |-> JNum(TimestampToMillis(PendingCut.datetime)),
       status |-> "active",
       createdAt |-> StartMillis - TickMillis,
       updatedAt |-> StartMillis - TickMillis]} : stored \in StoredUserLists}

InitParticipants ==
    /\ now = StartMillis
    /\ \E mapping \in ParticipantMappings : yclientsChats = {mapping}
    /\ yclientsRecords = {PendingCut}
    /\ chats \in ProjectedChats
    /\ yclientsUsers \in SUBSET IdentityPool
    /\ users \in SUBSET UserPool
    /\ sweepPc = "idle"
    /\ sweepQueue = <<>>
    /\ stats = ZeroChatSyncStats
    /\ sweepLog = EmptySweepLog
    /\ syncPc = "idle"
    /\ syncLeft = 0
    /\ syncStats = ZeroSyncStats
    /\ syncLog = EmptySyncLog
    /\ responses = <<>>
    /\ lastOp = NoOp
    /\ settled = {}
    /\ runs = IdleRuns
    /\ NoNotifications

NextParticipants ==
    \/ StartSweep
    \/ SweepStep({0})
    \/ EndSweep

SpecParticipants == InitParticipants /\ [][NextParticipants]_vars

(***************************************************************************)
(* The notification dispatcher alone: one recipient with every push        *)
(* setting, one message on either side of the one-minute window, pending   *)
(* notifications with every kind of reference; the clock advances and the  *)
(* chat application touches the message between dispatch steps.            *)
(***************************************************************************)
NotificationIds == 1..MaxNotifications
RecipientId == UserOfStaff.id
MissingUserId == UserOfClient.id
Recipients ==
    {[id |-> RecipientId, yclientsId |-> UserOfStaff.yclientsId,
      fcm_token |-> token, isNotificationsEnabled |-> enabled] :
        token \in {"", "tok"}, enabled \in {"true", "false", "null"}}

MessageOne == [id |-> 1, chatId |-> 1]
MessageRefs ==
    {[chatId |-> 0, messageId |-> 0], [chatId |-> 1, messageId |-> 0],
     [chatId |-> 1, messageId |-> 1], [chatId |-> 1, messageId |-> 2]}
StoredMessages ==
    {[id |-> MessageOne.id, chatId |-> MessageOne.chatId, status |-> status,
      updatedAt |-> StartMillis - age] :
        status \in {"sent", "read"},
        age \in {oneMinuteInMillis, oneMinuteInMillis - 1,
                 oneMinuteInMillis - TickMillis}}

PendingNotification(id, toUserId, ref) ==
    [id |-> id, toUserId |-> toUserId, chatId |-> ref.chatId,
     messageId |-> ref.messageId, status |-> "pending", updatedAt |-> 0]

PendingSets ==
    LET choices == [NotificationIds ->
                      {<<>>} \cup ({RecipientId, MissingUserId} \X MessageRefs)]
    IN  {{PendingNotification(id, c[id][1], c[id][2]) :
            id \in {i \in NotificationIds : c[i] # <<>>}} : c \in choices}

InitNotifications ==
    /\ now = StartMillis
    /\ yclientsChats = {}
    /\ yclientsRecords = {}
    /\ chats = {}
    /\ yclientsUsers = {}
    /\ \E user \in Recipients : users = {user}
    /\ sweepPc = "idle"
    /\ sweepQueue = <<>>
    /\ stats = ZeroChatSyncStats
    /\ sweepLog = EmptySweepLog
    /\ syncPc = "idle"
    /\ syncLeft = 0
    /\ syncStats = ZeroSyncStats
    /\ syncLog = EmptySyncLog
    /\ responses = <<>>
    /\ lastOp = NoOp
    /\ settled = {}
    /\ runs = IdleRuns
    /\ notificationsPending \in PendingSets
    /\ notificationsSent = {}
    /\ \E message \in StoredMessages : messages = {message}
    /\ dispatchPc = "idle"
    /\ dispatchQueue = <<>>
    /\ pushAttempts = {}
    /\ heldQuiet = {}
    /\ terminalIds = {}
    /\ dispatchLog = EmptyLog
    /\ lastNotif = NoNotif

NextNotifications ==
    \/ Tick
    \/ StartDispatch
    \/ DispatchStep
    \/ EndDispatch
    \/ TouchMessage

SpecNotifications == InitNotifications /\ [][NextNotifications]_vars

\* The dispatcher over a store whose calls may throw.
NextDispatchFaults ==
    \/ Tick
    \/ StartDispatch
    \/ DispatchStep
    \/ DispatchFault
    \/ EndDispatch
    \/ TouchMessage

SpecDispatchFaults == InitNotifications /\ [][NextDispatchFaults]_vars

(***************************************************************************)
(* The projection sweep over a store whose calls may throw: two chat       *)
(* mappings, each with an empty or a one-record sub-ledger, with or        *)
(* without a chat.                                                         *)
(***************************************************************************)
PendingDye ==
    normalizeRecord(FreshSyncMapping.id,
        [id |-> 2, staff_id |-> StaffId, client |-> Client1,
         services |-> <<"Dye">>, datetime |-> StartMillis \div 1000 - 2,
         attendance |-> 0, length |-> 1, deleted |-> FALSE])

InitSweepFaults ==
    /\ now = StartMillis
    /\ yclientsChats = {ResolvedMapping, FreshSyncMapping}
    /\ \E cut \in SUBSET {PendingCut}, dye \in SUBSET {PendingDye} :
         yclientsRecords = cut \cup dye
    /\ \E stored \in StoredChats, fresh \in SUBSET {FreshSyncChat} :
         chats = stored \cup fresh
    /\ yclientsUsers = {IdentityClient, IdentityStaff}
    /\ users = {UserOfClient, UserOfStaff}
    /\ sweepPc = "idle"
    /\ sweepQueue = <<>>
    /\ stats = ZeroChatSyncStats
    /\ sweepLog = EmptySweepLog
    /\ syncPc = "idle"
    /\ syncLeft = 0
    /\ syncStats = ZeroSyncStats
    /\ syncLog = EmptySyncLog
    /\ responses = <<>>
    /\ lastOp = NoOp
    /\ settled = {}
    /\ runs = IdleRuns
    /\ NoNotifications

NextSweepFaults ==
    \/ StartSweep
    \/ StartSweepFault
    \/ SweepStep({0})
    \/ SweepFault
    \/ EndSweep

SpecSweepFaults == InitSweepFaults /\ [][NextSweepFaults]_vars

(***************************************************************************)
(* The on-demand sync endpoint: requests of every kind arrive one after    *)
(* the other at the store of the sequential specification, and store calls *)
(* of the record loop may throw.                                           *)
(***************************************************************************)
NextEndpoint ==
    \/ SyncRequest
    \/ SyncStep
    \/ SyncFault
    \/ EndSync

SpecEndpoint == Init /\ [][NextEndpoint]_vars

(***************************************************************************)
(* Properties.                                                             *)
(***************************************************************************)
PassKinds == {"create", "update", "skip"}

ChatsOf(m) == {c \in chats : c.yclientsId = m}
SubLedgerOf(m) == {r \in yclientsRecords : r.chatId = m}

\* The activity rule as the specification words it, in epoch milliseconds.
DatetimeMillis(r) == r.datetime.seconds * 1000 + r.datetime.nanoseconds \div 1000000
WindowStart(r, t) == t - 3 * r.length * 1000
ActiveByRule(r, t) ==
    /\ r.deleted = FALSE
    /\ r.attendance # 1 /\ r.attendance # -1
    /\ ~(DatetimeMillis(r) < WindowStart(r, t))

\* The step is a projection pass over chat mapping m.
PassOver(m) ==
    /\ sweepPc = "loop" /\ sweepQueue # <<>> /\ Head(sweepQueue) = m
    /\ sweepQueue' = Tail(sweepQueue)

\* C1: in every state reachable by on-demand syncs and projection sweeps, at
\* most one chat has the id of a given chat mapping as its yclientsId.
C1_OneChatPerMapping ==
    \A c1 \in chats : \A c2 \in chats :
        c1.yclientsId = c2.yclientsId => c1 = c2

\* A chat made by the on-demand sync has been found and rewritten by a
\* projection pass, and a second mapping has its own chat.
C1_Witness ==
    /\ lastOp.kind = "update"
    /\ ChatMappingById(lastOp.m).recordId # 0
    /\ Cardinality(ChatsOf(lastOp.m)) = 1
    /\ Cardinality(chats) = 2

\* C2: when two overlapping projection runs on the same chat mapping have
\* both finished, the store is as one run alone leaves it: for a non-empty
\* sub-ledger exactly one chat of the mapping, with the derived status, title,
\* date and participants.
C2_OverlapConverges ==
    (DOMAIN runs # {} /\ \A p \in DOMAIN runs : runs[p].pc = "done") =>
        LET m == ResolvedMapping
            records == getYClientsRecordsByChat(m.id)
            recordInfo == findRecordForChatInfo(records, now)
        IN  Len(records) > 0 =>
              /\ Cardinality(ChatsOf(m.id)) = 1
              /\ \A c \in ChatsOf(m.id) :
                    /\ c.status = determineChatStatus(records, now)
                    /\ c.title = OrNull(recordInfo.title)
                    /\ c.date = OrNull(recordInfo.date)
                    /\ SortIds(c.users) = SortIds(mapYClientsUsersToUserIds(
                           m.clientId, m.clientPhone, m.staffId, m.staffPhone))

\* C3: a pass over a chat mapping that was already projected, with the
\* sub-ledger, identity mappings, users and clock unchanged since, writes no
\* chat and leaves chatsCreated and chatsUpdated as they were.
C3_SecondPassWritesNothing ==
    [][\A m \in settled :
          (PassOver(m) /\ now' = now) =>
              /\ chats' = chats
              /\ stats'.chatsCreated = stats.chatsCreated
              /\ stats'.chatsUpdated = stats.chatsUpdated]_vars

\* A pass at the first clock value has found nothing to write for a chat that
\* did not carry the derived values before the first pass.
C3_Witness ==
    /\ lastOp.kind = "skip"
    /\ lastOp.m = ResolvedMapping.id
    /\ lastOp.m \in settled
    /\ now = StartMillis

\* C4: every stored chat carries a derived status, and for a chat whose
\* mapping has a non-empty sub-ledger the stored status, title and date are
\* the values the projection rules derive from that sub-ledger.
C4_FieldsAlwaysDerived ==
    \A c \in chats :
        /\ c.status \in {"active", "archived"}
        /\ LET records == getYClientsRecordsByChat(c.yclientsId)
               recordInfo == findRecordForChatInfo(records, now)
           IN  Len(records) > 0 =>
                 /\ c.status = determineChatStatus(records, now)
                 /\ c.title = OrNull(recordInfo.title)
                 /\ c.date = OrNull(recordInfo.date)

\* C5: there is one chat mapping per staff id and client id or client phone.
C5_OneMappingPerPair ==
    \A m1 \in yclientsChats : \A m2 \in yclientsChats :
        ( /\ m1.staffId = m2.staffId
          /\ (m1.clientId = m2.clientId \/ m1.clientPhone = m2.clientPhone) )
        => m1 = m2

\* C6: isRecordActive is true exactly for a record that is not deleted, whose
\* attendance is neither 1 nor -1 and whose datetime is not earlier than now
\* minus 3 times its length; a deleted or settled record is never active.
C6_ActivityRule ==
    \A r \in yclientsRecords :
        LET active == isRecordActive(r, TimestampFromMillis(now))
        IN  /\ active <=> ActiveByRule(r, now)
            /\ (r.deleted \/ r.attendance \in {1, -1}) => ~active

\* A pass has archived a chat whose only obstacle to being active is a
\* no-show record inside its window.
C6_Witness ==
    /\ lastOp.kind \in PassKinds
    /\ lastOp.tInfo = now
    /\ \E r \in SubLedgerOf(lastOp.m) :
          /\ r.attendance = -1 /\ ~r.deleted
          /\ DatetimeMillis(r) >= WindowStart(r, now)
    /\ \A c \in ChatsOf(lastOp.m) : c.status = "archived"

\* C7: the window boundary is inclusive: an unsettled, undeleted record whose
\* datetime equals now - 3*length is active; one second earlier it is not.
C7_BoundaryInclusive ==
    \A r \in yclientsRecords :
        (r.attendance = 0 /\ ~r.deleted) =>
            /\ DatetimeMillis(r) = WindowStart(r, now)
                  => isRecordActive(r, TimestampFromMillis(now))
            /\ DatetimeMillis(r) = WindowStart(r, now) - 1000
                  => ~isRecordActive(r, TimestampFromMillis(now))

\* The sub-ledger a pass has just projected holds a record exactly on the
\* boundary and a record one second before it.
C7_Witness ==
    /\ lastOp.kind \in PassKinds
    /\ lastOp.tStatus = now
    /\ \E r \in SubLedgerOf(lastOp.m) :
          /\ r.attendance = 0 /\ ~r.deleted
          /\ DatetimeMillis(r) = WindowStart(r, now)
    /\ \E r \in SubLedgerOf(lastOp.m) :
          /\ r.attendance = 0 /\ ~r.deleted
          /\ DatetimeMillis(r) = WindowStart(r, now) - 1000
    /\ \A c \in ChatsOf(lastOp.m) : c.status = "active"

\* C8: after a pass over a non-empty sub-ledger the chat's status is "active"
\* if some record is active by the activity rule at the pass's reading of the
\* clock and "archived" otherwise, never "new" or "paused".
C8_StatusDerivation ==
    lastOp.kind \in PassKinds =>
        /\ ChatsOf(lastOp.m) # {}
        /\ \A c \in ChatsOf(lastOp.m) :
              /\ c.status =
                    (IF \E r \in SubLedgerOf(lastOp.m) :
                            ActiveByRule(r, lastOp.tStatus)
                     THEN "active" ELSE "archived")
              /\ c.status \notin {"new", "paused"}

\* A pass has rewritten a stored chat as archived over two records.
C8_Witness ==
    /\ lastOp.kind = "update"
    /\ Cardinality(SubLedgerOf(lastOp.m)) = 2
    /\ \A c \in ChatsOf(lastOp.m) : c.status = "archived"

\* C9: after a pass the chat's title and date are those of an active record
\* of minimum datetime when some record is active, and else those of a record
\* of maximum datetime among all records of the sub-ledger.
C9_DisplaySelection ==
    lastOp.kind \in PassKinds =>
        LET all == SubLedgerOf(lastOp.m)
            act == {r \in all : ActiveByRule(r, lastOp.tInfo)}
            Shows(c, r) ==
                /\ c.title = r.serviceTitle
                /\ c.date = JNum(DatetimeMillis(r))
        IN  \A c \in ChatsOf(lastOp.m) :
              IF act # {}
              THEN \E r \in act :
                     /\ \A q \in act : DatetimeMillis(r) <= DatetimeMillis(q)
                     /\ Shows(c, r)
              ELSE \E r \in all :
                     /\ \A q \in all : DatetimeMillis(r) >= DatetimeMillis(q)
                     /\ Shows(c, r)

\* A pass has chosen the earlier of two active records, which is not the
\* first record of the sub-ledger.
C9_Witness ==
    /\ lastOp.kind \in PassKinds
    /\ \E r1 \in SubLedgerOf(lastOp.m) : \E r2 \in SubLedgerOf(lastOp.m) :
          /\ r1.recordId < r2.recordId
          /\ ActiveByRule(r1, lastOp.tInfo) /\ ActiveByRule(r2, lastOp.tInfo)
          /\ DatetimeMillis(r2) < DatetimeMillis(r1)
          /\ \A c \in ChatsOf(lastOp.m) : c.date = JNum(DatetimeMillis(r2))

\* C10: a projection pass over a chat mapping whose sub-ledger is empty
\* leaves the chats collection unchanged.
C10_EmptySubLedgerNoWrite ==
    [][\A m \in MappingIds :
          (PassOver(m) /\ SubLedgerOf(m) = {}) => chats' = chats]_vars

\* A pass has gone over a mapping with an empty sub-ledger whose chat does not
\* carry a derived status.
C10_Witness ==
    /\ lastOp.kind = "empty"
    /\ SubLedgerOf(lastOp.m) = {}
    /\ \E c \in ChatsOf(lastOp.m) : c.status = "new"

\* C11: a projection pass over a chat mapping with a non-empty sub-ledger and
\* no chat creates exactly one chat: its id is fresh, its yclientsId the
\* mapping id, createdAt and updatedAt the current time, its status, title,
\* date and participants the derived ones; chatsCreated grows by exactly 1.
C11_PassCreatesOneChat ==
    [][\A m \in MappingIds :
          (PassOver(m) /\ SubLedgerOf(m) # {} /\ ChatsOf(m) = {}) =>
              \E c \in chats' :
                  LET mapping == ChatMappingById(m)
                      all == SubLedgerOf(m)
                      act == {r \in all : ActiveByRule(r, now')}
                      shown == IF act # {}
                               THEN {r \in act : \A q \in act :
                                        DatetimeMillis(r) <= DatetimeMillis(q)}
                               ELSE {r \in all : \A q \in all :
                                        DatetimeMillis(r) >= DatetimeMillis(q)}
                  IN  /\ chats' = chats \cup {c}
                      /\ c.id \notin {d.id : d \in chats}
                      /\ c.yclientsId = m
                      /\ c.createdAt = now' /\ c.updatedAt = now'
                      /\ c.status = (IF \E r \in all : ActiveByRule(r, now)
                                     THEN "active" ELSE "archived")
                      /\ \E r \in shown : /\ c.title = r.serviceTitle
                                          /\ c.date = JNum(DatetimeMillis(r))
                      /\ c.users = mapYClientsUsersToUserIds(mapping.clientId,
                             mapping.clientPhone, mapping.staffId,
                             mapping.staffPhone)
                      /\ stats'.chatsCreated = stats.chatsCreated + 1]_vars

\* A pass has created the chat of a mapping after the clock had moved on: the
\* chat has both participants, client first, and is stamped with the time of
\* the pass.
C11_Witness ==
    /\ lastOp.kind = "create"
    /\ now > StartMillis
    /\ \E c \in ChatsOf(lastOp.m) :
          /\ c.createdAt = now /\ c.updatedAt = now
          /\ c.users = <<UserOfClient.id, UserOfStaff.id>>
          /\ c.status = "active"
    /\ Cardinality(ChatsOf(lastOp.m)) = 1

\* Participant resolution as the specification words it: the identity chosen
\* for a side is the one matching the numeric id and, only when there is none
\* and a phone is given, the one matching the phone; the side contributes the
\* id of the user linked to the chosen identity, or nothing.
ChosenIdentity(byId, byPhone, phone) ==
    IF byId # {} THEN byId ELSE IF phone # "" THEN byPhone ELSE {}
ClientIdentity(m) ==
    ChosenIdentity({i \in yclientsUsers : i.clientId = m.clientId},
                   {i \in yclientsUsers : i.phone = m.clientPhone},
                   m.clientPhone)
StaffIdentity(m) ==
    ChosenIdentity({i \in yclientsUsers : i.staffId = m.staffId},
                   {i \in yclientsUsers : i.phone = m.staffPhone},
                   m.staffPhone)
LinkedUserIds(identities) ==
    {u.id : u \in {v \in users : \E i \in identities : v.yclientsId = i.id}}
Resolved(m) ==
    mapYClientsUsersToUserIds(m.clientId, m.clientPhone, m.staffId, m.staffPhone)

\* C12: mapYClientsUsersToUserIds returns at most two user ids, the client's
\* before the staff's; a side whose identity mapping or user is not found
\* contributes nothing.
C12_ParticipantList ==
    \A m \in yclientsChats :
        LET ids == Resolved(m)
            clientIds == LinkedUserIds(ClientIdentity(m))
            staffIds == LinkedUserIds(StaffIdentity(m))
        IN  /\ Len(ids) \in {0, 1, 2}
            /\ Len(ids) = Cardinality(clientIds) + Cardinality(staffIds)
            /\ clientIds # {} => ids[1] \in clientIds
            /\ staffIds # {} => ids[Len(ids)] \in staffIds

\* A pass has created a chat with the staff's user only: the client's identity
\* mapping is in the store, the user it links to is not.
C12_Witness ==
    /\ lastOp.kind = "create"
    /\ \E m \in yclientsChats :
          /\ m.id = lastOp.m
          /\ ClientIdentity(m) # {}
          /\ LinkedUserIds(ClientIdentity(m)) = {}
          /\ \A c \in ChatsOf(m.id) : c.users = <<UserOfStaff.id>>

\* C13: on each side the identity matching the numeric id is used when there
\* is one, whatever the phone matches; when there is none and an identity
\* matches the phone, the user linked to that identity is returned.
C13_IdFirstPhoneFallback ==
    \A m \in yclientsChats :
        LET ids == Resolved(m)
            clientById == {i \in yclientsUsers : i.clientId = m.clientId}
            clientByPhone == {i \in yclientsUsers : i.phone = m.clientPhone}
            staffById == {i \in yclientsUsers : i.staffId = m.staffId}
            staffByPhone == {i \in yclientsUsers : i.phone = m.staffPhone}
            Seen(userIds) == \E k \in 1..Len(ids) : ids[k] \in userIds
        IN  /\ (clientById = {} /\ m.clientPhone # ""
                    /\ LinkedUserIds(clientByPhone) # {})
                  => (Len(ids) > 0 /\ ids[1] \in LinkedUserIds(clientByPhone))
            /\ (staffById = {} /\ m.staffPhone # ""
                    /\ LinkedUserIds(staffByPhone) # {})
                  => (Len(ids) > 0 /\ ids[Len(ids)] \in LinkedUserIds(staffByPhone))
            /\ clientById # {}
                  => ~Seen(LinkedUserIds(clientByPhone \ clientById))
            /\ staffById # {}
                  => ~Seen(LinkedUserIds(staffByPhone \ staffById))

\* A pass has written a chat whose client was found by phone, there being no
\* identity with the client's id, and whose staff was found by id although
\* another identity with a user matches the staff's phone.
C13_Witness ==
    /\ lastOp.kind \in {"create", "update"}
    /\ \E m \in yclientsChats :
          /\ m.id = lastOp.m
          /\ ClientByIdOnly \notin yclientsUsers
          /\ {StaffByIdOnly, StaffByPhone} \subseteq yclientsUsers
          /\ UserOfPhoneStaff \in users
          /\ m.staffPhone # ""
          /\ \A c \in ChatsOf(m.id) :
                SortIds(c.users) = <<UserOfStaff.id, UserOfPhoneClient.id>>

\* The status and the records shown that the projection rules derive from the
\* sub-ledger of chat mapping m at time t.
DerivedStatus(m, t) ==
    IF \E r \in SubLedgerOf(m) : ActiveByRule(r, t) THEN "active" ELSE "archived"
ShownRecords(m, t) ==
    LET all == SubLedgerOf(m)
        act == {r \in all : ActiveByRule(r, t)}
    IN  IF act # {}
        THEN {r \in act : \A q \in act : DatetimeMillis(r) <= DatetimeMillis(q)}
        ELSE {r \in all : \A q \in all : DatetimeMillis(r) >= DatetimeMillis(q)}

IsPermutation(a, b) ==
    /\ Len(a) = Len(b)
    /\ \E f \in Permutations(1..Len(a)) : \A i \in 1..Len(a) : a[i] = b[f[i]]

\* C14: a pass over a chat whose status, title and date are the derived ones
\* and whose users are a permutation of the resolved participants updates no
\* chat.
C14_PermutationNoUpdate ==
    [][\A m \in yclientsChats : \A c \in ChatsOf(m.id) :
          ( /\ PassOver(m.id)
            /\ SubLedgerOf(m.id) # {}
            /\ c.status = DerivedStatus(m.id, now)
            /\ \E r \in ShownRecords(m.id, now) :
                  c.title = r.serviceTitle /\ c.date = JNum(DatetimeMillis(r))
            /\ IsPermutation(c.users, Resolved(m)) )
          => /\ chats' = chats
             /\ stats'.chatsUpdated = stats.chatsUpdated]_vars

\* A pass has left alone a chat, written before the clock's first value, that
\* lists the two resolved participants in the other order.
C14_Witness ==
    /\ lastOp.kind = "skip"
    /\ \E m \in yclientsChats : \E c \in ChatsOf(m.id) :
          /\ m.id = lastOp.m
          /\ c.updatedAt < StartMillis
          /\ Len(c.users) = 2
          /\ c.users # Resolved(m)
          /\ IsPermutation(c.users, Resolved(m))

IdsOf(notifications) == {n.id : n \in notifications}

\* The step is the dispatch loop's iteration over notification n.
DispatchOf(n) ==
    /\ dispatchPc = "loop"
    /\ dispatchQueue # <<>>
    /\ Head(dispatchQueue) = n
    /\ dispatchQueue' = Tail(dispatchQueue)

HasMessageRef(n) == n.chatId # 0 /\ n.messageId # 0
MessageOf(n) == {m \in messages : m.chatId = n.chatId /\ m.id = n.messageId}
RecipientOf(n) == {u \in users : u.id = n.toUserId}

\* C15: a dispatch step over a pending notification whose recipient user does
\* not exist, or whose referenced message (chatId and messageId both set) does
\* not exist or has status 'read', removes it from the pending set, writes no
\* sent-history record and attempts no push.
C15_DeadNotificationRemoved ==
    [][\A n \in notificationsPending :
         (/\ DispatchOf(n)
          /\ \/ RecipientOf(n) = {}
             \/ /\ HasMessageRef(n)
                /\ \/ MessageOf(n) = {}
                   \/ \E m \in MessageOf(n) : m.status = "read")
         => /\ n.id \notin IdsOf(notificationsPending')
            /\ notificationsSent' = notificationsSent
            /\ pushAttempts' = pushAttempts]_vars

C15_Witness ==
    /\ lastNotif.outcome = "removedRead"
    /\ Cardinality(terminalIds) = MaxNotifications
    /\ notificationsPending = {}
    /\ notificationsSent = {}
    /\ pushAttempts = {}

\* The referenced message of n exists, is not read and was last updated less
\* than 60 seconds before now.
FreshUnread(n) ==
    /\ HasMessageRef(n)
    /\ \E m \in MessageOf(n) : m.status # "read" /\ now - m.updatedAt < 60000

Untouched ==
    /\ notificationsPending' = notificationsPending
    /\ notificationsSent' = notificationsSent
    /\ pushAttempts' = pushAttempts

\* C16 as stated: a dispatch step over a pending notification with chatId and
\* messageId whose message exists, is not read and was last updated less than
\* 60 seconds before now leaves the pending set, the sent-history and the push
\* gateway untouched, whoever the recipient is.
C16_HeldWhoeverTheRecipient ==
    [][\A n \in notificationsPending :
         (DispatchOf(n) /\ FreshUnread(n)) => Untouched]_vars

\* C16: a dispatch step over a pending notification whose recipient user
\* exists and whose referenced message (chatId and messageId both set) exists,
\* is not read and was last updated less than 60 seconds before now leaves it
\* in the pending set, writes no sent-history record and attempts no push.
C16_HeldUntouched ==
    [][\A n \in notificationsPending :
         (DispatchOf(n) /\ RecipientOf(n) # {} /\ FreshUnread(n))
         => Untouched]_vars

C16_Witness ==
    /\ lastNotif.outcome = "held"
    /\ lastNotif.at = now
    /\ \E n \in notificationsPending :
         /\ n.id = lastNotif.id
         /\ RecipientOf(n) # {}
         /\ FreshUnread(n)
    /\ lastNotif.id \notin IdsOf(notificationsSent)
    /\ lastNotif.id \notin pushAttempts

PassesGating(n) ==
    /\ RecipientOf(n) # {}
    /\ HasMessageRef(n) =>
         \E m \in MessageOf(n) : m.status # "read" /\ now - m.updatedAt >= 60000

\* C18: a dispatch step over a notification whose recipient exists and which
\* passes the message gating, the recipient having no push token or having
\* isNotificationsEnabled equal to false, records it in sent-history with
\* status 'sent', removes it from the pending set and does not call the push
\* gateway.
C18_NoPushStillSent ==
    [][\A n \in notificationsPending :
         (/\ DispatchOf(n)
          /\ PassesGating(n)
          /\ \E u \in RecipientOf(n) :
               u.fcm_token = "" \/ u.isNotificationsEnabled = "false")
         => /\ n.id \notin IdsOf(notificationsPending')
            /\ \E s \in notificationsSent' : s.id = n.id /\ s.status = "sent"
            /\ pushAttempts' = pushAttempts]_vars

C18_Witness ==
    /\ lastNotif.outcome = "sent"
    /\ ~lastNotif.pushed
    /\ \E u \in users :
         u.fcm_token # "" /\ u.isNotificationsEnabled = "false"
    /\ \E s \in notificationsSent : s.id = lastNotif.id /\ s.status = "sent"
    /\ lastNotif.id \notin IdsOf(notificationsPending)
    /\ lastNotif.id \notin pushAttempts

\* C19: a dispatch step that attempts a push records the notification with
\* status 'sent' exactly when the gateway delivered and 'failed' otherwise; a
\* gateway exception ends in a 'failed' record for that notification, the step
\* completing as for any other item.
C19_StatusFollowsGateway ==
    [][\A n \in notificationsPending :
         (DispatchOf(n) /\ lastNotif'.pushed)
         => /\ n.id \notin IdsOf(notificationsPending')
            /\ \E s \in notificationsSent' :
                 /\ s.id = n.id
                 /\ s.status = "sent" <=> lastNotif'.gateway = "delivered"
                 /\ s.status = "failed" <=> lastNotif'.gateway # "delivered"
            /\ \A s \in notificationsSent' \ notificationsSent : s.id = n.id]_vars

C19_Witness ==
    /\ lastNotif.pushed
    /\ lastNotif.gateway = "throws"
    /\ lastNotif.outcome = "failed"
    /\ \E s \in notificationsSent : s.id = lastNotif.id /\ s.status = "failed"
    /\ lastNotif.id \notin IdsOf(notificationsPending)
    /\ lastNotif.id \in pushAttempts

\* C20: in every state reached by dispatch sweeps no notification id is both
\* in the pending set and in sent-history, every sent-history record has
\* status 'sent' or 'failed', and every notification that made a terminal
\* transition (sent, failed or early removal) is absent from the pending set.
C20_PendingSentDisjoint ==
    /\ IdsOf(notificationsPending) \cap IdsOf(notificationsSent) = {}
    /\ \A s \in notificationsSent : s.status \in {"sent", "failed"}
    /\ \A id \in terminalIds : id \notin IdsOf(notificationsPending)

C20_Witness ==
    /\ dispatchPc = "idle"
    /\ Cardinality(terminalIds) = MaxNotifications
    /\ Cardinality(notificationsSent) = 1
    /\ \E s \in notificationsSent : s.status = "failed"
    /\ notificationsPending = {}

\* C21: in one notification sweep a thrown error while processing one pending
\* notification does not stop the sweep: when the sweep ends, every
\* notification of the snapshot read at its start has had its turn, and while
\* it runs the ones without a turn yet are exactly those still queued.
C21_FaultDoesNotStopSweep ==
    /\ dispatchLog.done \cup dispatchLog.failed \cup
          {dispatchQueue[i].id : i \in 1..Len(dispatchQueue)}
       = dispatchLog.read
    /\ dispatchPc = "idle" =>
          dispatchLog.done \cup dispatchLog.failed = dispatchLog.read

C21_Witness ==
    /\ dispatchPc = "loop"
    /\ dispatchQueue = <<>>
    /\ dispatchLog.failed # {}
    /\ lastNotif.id \in dispatchLog.done
    /\ lastNotif.id \in terminalIds
    /\ \A id \in dispatchLog.failed : id < lastNotif.id

\* In a running sweep every mapping read has completed, been skipped for its
\* empty sub-ledger, failed or is still queued; the counters errors and
\* chatsProcessed count the failed mappings and the mappings completed with a
\* non-empty sub-ledger.
SweepAccounts ==
    /\ sweepLog.completed \cup sweepLog.skipped \cup sweepLog.failed
          \cup {sweepQueue[i] : i \in 1..Len(sweepQueue)} = sweepLog.read
    /\ \A m \in sweepLog.completed : SubLedgerOf(m) # {}
    /\ \A m \in sweepLog.skipped : SubLedgerOf(m) = {}
    /\ stats.errors = Cardinality(sweepLog.failed)
    /\ stats.chatsProcessed = Cardinality(sweepLog.completed)

\* C22 as stated: in every projection sweep a failure on one ChatMapping
\* keeps no other from being processed, errors equals the number of mappings
\* whose processing failed and chatsProcessed the number that completed with a
\* non-empty sub-ledger.
C22_ErrorsCountFailedMappings ==
    sweepPc = "loop" => SweepAccounts

\* C22: in a projection sweep that has read the chat mappings, a failure on
\* one ChatMapping keeps no other from being processed, errors equals the
\* number of mappings whose processing failed and chatsProcessed the number
\* that completed with a non-empty sub-ledger; a sweep whose read of the chat
\* mappings failed ends with errors 1 and no mapping processed.
C22_SweepIsolatesFailures ==
    sweepPc = "loop" =>
        IF sweepLog.listed THEN SweepAccounts
        ELSE /\ stats = [ZeroChatSyncStats EXCEPT !.errors = 1]
             /\ sweepQueue = <<>>

C22_Witness ==
    /\ sweepPc = "loop"
    /\ sweepQueue = <<>>
    /\ sweepLog.listed
    /\ sweepLog.failed = {ResolvedMapping.id}
    /\ sweepLog.completed = {FreshSyncMapping.id}
    /\ stats.errors = 1
    /\ stats.chatsProcessed = 1
    /\ lastOp.m = FreshSyncMapping.id

\* C23: in the on-demand sync a record whose processing throws keeps no
\* remaining record of the request from being processed, the request is
\* still answered 200 with success true, and recordsProcessed counts exactly
\* the records processed without error.
C23_RecordFaultIsolated ==
    /\ syncLog.ok + syncLog.failed + syncLeft = syncLog.loaded
    /\ syncPc = "loop" =>
          syncStats.recordsProcessed = syncLog.ok /\ responses = <<>>
    /\ (syncPc = "idle" /\ syncLog.loaded > 0) =>
          /\ Len(responses) = 1
          /\ responses[1].status = 200
          /\ responses[1].success = "true"
          /\ responses[1].stats.recordsProcessed = syncLog.ok

C23_Witness ==
    /\ syncPc = "idle"
    /\ syncLog.loaded = MaxRequestRecords
    /\ syncLog.failed = 1
    /\ syncLog.ok = syncLog.loaded - 1
    /\ Len(responses) = 1
    /\ responses[1].status = 200
    /\ responses[1].success = "true"
    /\ responses[1].stats.recordsProcessed = syncLog.ok

\* The step is an iteration of the on-demand sync's loop that processed a
\* record with no client without error.
SyncOfClientless ==
    /\ syncPc = "loop" /\ syncLeft > 0
    /\ syncLog'.ok = syncLog.ok + 1
    /\ ~syncLog'.record.client.present

CountsNoChat ==
    /\ syncStats'.chatsCreated = syncStats.chatsCreated
    /\ syncStats'.chatsUpdated = syncStats.chatsUpdated

OwedStatus(request) ==
    IF request.method = "OPTIONS" THEN 204
    ELSE IF request.method # "POST" THEN 405
    ELSE IF request.userId.t # "string" \/ request.userId.s = "" THEN 400
    ELSE IF \A u \in users : u.id # request.userId.n THEN 404
    ELSE IF \A u \in users : u.id = request.userId.n =>
               (\A m \in yclientsUsers : m.id # u.yclientsId) THEN 404
    ELSE IF request.fetch = "failed" THEN 500
    ELSE 200

PlainError(message) ==
    [status |-> JUndefined, errorCode |-> JUndefined, message |-> JStr(message)]

\* yclients.service handleError: the error of a provider response.
handleError(status, errorCode) ==
    [status |-> JNum(status), errorCode |-> errorCode,
     message |-> JStr("YClients API Error")]

\* handleFunctionError with the thrown error code passed on as it is.
handleFunctionErrorRawCode(error) ==
    LET statusCode == IF Falsy(error.status) THEN JNum(500) ELSE error.status
        errorMessage == IF Falsy(error.message)
                        THEN JStr("An unexpected error occurred")
                        ELSE error.message
    IN  [status |-> statusCode.n, success |-> "false", error |-> errorMessage,
         errorCode |-> error.errorCode, stats |-> ZeroSyncStats]

\* handleFunctionError: the response sent for a thrown error.
handleFunctionError(error) ==
    LET statusCode == IF Falsy(error.status) THEN JNum(500) ELSE error.status
        errorCode == IF Falsy(error.errorCode) THEN statusCode
                     ELSE error.errorCode
        errorMessage == IF Falsy(error.message)
                        THEN JStr("An unexpected error occurred")
                        ELSE error.message
    IN  [status |-> statusCode.n, success |-> "false", error |-> errorMessage,
         errorCode |-> errorCode, stats |-> ZeroSyncStats]

\* The success response of authClient and authStaff.
AuthedResponse(yclientsId, userToken) ==
    [status |-> 200, success |-> "absent", error |-> JUndefined,
     errorCode |-> JUndefined, stats |-> ZeroSyncStats,
     yclientsId |-> yclientsId, userToken |-> userToken]

\* The provider's users: the user id it returns for a phone or login.
ProviderUserId(login) ==
    IF login = IdentityClient.phone THEN IdentityClient.clientId
    ELSE IdentityStaff.clientId

UserTokens == {11, 12}
AuthLogins ==
    {JUndefined, JNum(5), JStr(IdentityClient.phone), JStr(StaffPhone)}
AuthSecrets == {JUndefined, JNum(5), JStr("secret")}
ProviderOutcomes == {"ok", "rejected", "refused", "unreachable"}
StaffLists == {"listed", "failed", "absent", "thrown"}
ProviderErrorCodes == {JUndefined, JNum(432)}

AuthRequests ==
    [kind : {"client", "staff"}, method : Methods, login : AuthLogins,
     secret : AuthSecrets, companyId : {0, 1}]

\* What the provider answers to a request: the outcome of the
\* authentication, the error code of a refusal, the token of a success and,
\* for a staff member, the outcome of the staff list.
NoAnswer ==
    [outcome |-> "none", errorCode |-> JUndefined, staffList |-> "none",
     userToken |-> 0]

ProviderAnswers(kind) ==
    {a \in [outcome : ProviderOutcomes, errorCode : ProviderErrorCodes,
            staffList : StaffLists \cup {"none"}, userToken : UserTokens \cup {0}] :
        /\ (a.userToken # 0) = (a.outcome = "ok")
        /\ (a.staffList # "none") = (a.outcome = "ok" /\ kind = "staff")
        /\ a.errorCode # JUndefined =>
               (a.outcome = "refused" \/ a.staffList = "thrown")}

\* The request passes the validation of its method and body, so that the
\* provider is called.
ReachesProvider(request) ==
    /\ validatePostMethod(request.method) = <<>>
    /\ ~Falsy(request.login) /\ ~Falsy(request.secret)
    /\ request.login.t = "string" /\ request.secret.t = "string"
    /\ request.kind = "staff" => request.companyId # 0

\* authClient up to the lookup of the identity mapping: the response it
\* sends, none when the provider authenticated the client.
authClientChecks(request, answer) ==
    LET method == validatePostMethod(request.method)
    IN  IF method # <<>> THEN method
        ELSE IF Falsy(request.login) \/ Falsy(request.secret)
        THEN <<ErrorResponse(400,
                   "Missing required fields: phoneNumber and code")>>
        ELSE IF request.login.t # "string" \/ request.secret.t # "string"
        THEN <<ErrorResponse(400,
                   "Invalid field types. phoneNumber and code must be strings")>>
        ELSE IF answer.outcome = "refused"
        THEN <<handleFunctionError(handleError(401, answer.errorCode))>>
        ELSE IF answer.outcome = "unreachable"
        THEN <<handleFunctionError(PlainError(
                   "YClients API: No response received from server"))>>
        ELSE IF answer.outcome = "rejected"
        THEN <<ErrorResponse(401,
                   "Authentication failed. Invalid phone number or code.")>>
        ELSE <<>>

\* authStaff that lets an authenticated login through although the staff
\* list does not hold its user.
authStaffChecksIgnoringStaffList(request, answer) ==
    LET method == validatePostMethod(request.method)
    IN  IF method # <<>> THEN method
        ELSE IF Falsy(request.login) \/ Falsy(request.secret)
        THEN <<ErrorResponse(400,
                   "Missing required fields: login and password")>>
        ELSE IF request.login.t # "string" \/ request.secret.t # "string"
        THEN <<ErrorResponse(400,
                   "Invalid field types. login and password must be strings")>>
        ELSE IF request.companyId = 0
        THEN <<handleFunctionError(PlainError(
                   "YCLIENTS_COMPANY_ID is not configured."))>>
        ELSE IF answer.outcome = "refused"
        THEN <<handleFunctionError(handleError(401, answer.errorCode))>>
        ELSE IF answer.outcome = "unreachable"
        THEN <<handleFunctionError(PlainError(
                   "YClients API: No response received from server"))>>
        ELSE IF answer.outcome = "rejected"
        THEN <<ErrorResponse(401,
                   "Authentication failed. Invalid login or password.")>>
        ELSE IF answer.staffList = "thrown"
        THEN <<handleFunctionError(handleError(403, answer.errorCode))>>
        ELSE IF answer.staffList = "failed"
        THEN <<ErrorResponse(500, "Failed to load staff information")>>
        ELSE <<>>

\* authStaff up to the lookup of the identity mapping.
authStaffChecks(request, answer) ==
    LET method == validatePostMethod(request.method)
    IN  IF method # <<>> THEN method
        ELSE IF Falsy(request.login) \/ Falsy(request.secret)
        THEN <<ErrorResponse(400,
                   "Missing required fields: login and password")>>
        ELSE IF request.login.t # "string" \/ request.secret.t # "string"
        THEN <<ErrorResponse(400,
                   "Invalid field types. login and password must be strings")>>
        ELSE IF request.companyId = 0
        THEN <<handleFunctionError(PlainError(
                   "YCLIENTS_COMPANY_ID is not configured."))>>
        ELSE IF answer.outcome = "refused"
        THEN <<handleFunctionError(handleError(401, answer.errorCode))>>
        ELSE IF answer.outcome = "unreachable"
        THEN <<handleFunctionError(PlainError(
                   "YClients API: No response received from server"))>>
        ELSE IF answer.outcome = "rejected"
        THEN <<ErrorResponse(401,
                   "Authentication failed. Invalid login or password.")>>
        ELSE IF answer.staffList = "thrown"
        THEN <<handleFunctionError(handleError(403, answer.errorCode))>>
        ELSE IF answer.staffList = "failed"
        THEN <<ErrorResponse(500, "Failed to load staff information")>>
        ELSE IF answer.staffList = "absent"
        THEN <<ErrorResponse(403,
                   "User authenticated but not found in staff list. Access denied.")>>
        ELSE <<>>

\* The local state of an authentication request: the endpoint, the phone or
\* login, the provider's token, the result of the lookup, the responses sent
\* and the store call made.
IdleAuth ==
    [pc |-> "idle", kind |-> "none", login |-> "", userToken |-> 0,
     found |-> {}, responses |-> <<>>, wrote |-> "none"]

AuthIds == DOMAIN runs
IdentityIds == 1..MaxMappings
FreeIdentityIds == IdentityIds \ {m.id : m \in yclientsUsers}

\* createYClientsUserMapping on the data authClient and authStaff pass.
createYClientsUserMapping(id, run) ==
    yclientsUsers \cup
        {[id |-> id, clientId |-> ProviderUserId(run.login),
          phone |-> run.login,
          staffId |-> IF run.kind = "staff" THEN StaffId ELSE 0,
          userToken |-> run.userToken]}

\* updateYClientsUserMapping that leaves the stored token as it is.
updateYClientsUserMappingKeepingToken(id, run) ==
    {IF m.id # id THEN m
     ELSE [id |-> m.id, clientId |-> m.clientId, phone |-> run.login,
           staffId |-> IF run.kind = "staff" THEN StaffId ELSE m.staffId,
           userToken |-> IF "userToken" \in DOMAIN m THEN m.userToken ELSE 0] :
        m \in yclientsUsers}

\* updateYClientsUserMapping: the named fields of document id are replaced.
updateYClientsUserMapping(id, run) ==
    {IF m.id # id THEN m
     ELSE [id |-> m.id, clientId |-> m.clientId, phone |-> run.login,
           staffId |-> IF run.kind = "staff" THEN StaffId ELSE m.staffId,
           userToken |-> run.userToken] : m \in yclientsUsers}

authFrame ==
    <<now, yclientsChats, yclientsRecords, chats, users, sweepVars, syncVars,
      lastOp, settled, notifVars>>

\* A request arrives at authClient or authStaff and is validated and
\* authenticated.
AuthRequest(p) ==
    /\ runs[p].pc = "idle"
    /\ \E request \in AuthRequests :
       \E answer \in (IF ReachesProvider(request)
                      THEN ProviderAnswers(request.kind) ELSE {NoAnswer}) :
         LET sent == IF request.kind = "client"
                     THEN authClientChecks(request, answer)
                     ELSE authStaffChecks(request, answer)
         IN  runs' = [runs EXCEPT ![p] =
                 IF sent # <<>>
                 THEN [IdleAuth EXCEPT !.pc = "done", !.kind = request.kind,
                                       !.responses = sent]
                 ELSE [IdleAuth EXCEPT !.pc = "lookup",
                                       !.kind = request.kind,
                                       !.login = request.login.s,
                                       !.userToken = answer.userToken]]
    /\ UNCHANGED <<yclientsUsers, authFrame>>

\* getYClientsUserMappingByClientId on the provider's user id.
AuthLookup(p) ==
    /\ runs[p].pc = "lookup"
    /\ runs' = [runs EXCEPT ![p] =
           [@ EXCEPT !.pc = "write",
                     !.found = getYClientsUserMappingByClientId(
                                   ProviderUserId(runs[p].login))]]
    /\ UNCHANGED <<yclientsUsers, authFrame>>

\* The mapping is created when the lookup found none and updated otherwise;
\* the request is answered with 200.
AuthWrite(p) ==
    /\ runs[p].pc = "write"
    /\ LET run == runs[p]
           answered ==
               [run EXCEPT !.pc = "done",
                           !.wrote = IF run.found = {} THEN "create" ELSE "update",
                           !.responses = <<AuthedResponse(
                               ProviderUserId(run.login), run.userToken)>>]
       IN  /\ IF run.found = {}
              THEN \E id \in FreeIdentityIds :
                     yclientsUsers' = createYClientsUserMapping(id, run)
              ELSE yclientsUsers' = updateYClientsUserMapping(
                       (CHOOSE m \in run.found : TRUE).id, run)
           /\ runs' = [runs EXCEPT ![p] = answered]
    /\ UNCHANGED authFrame

\* A store call of the request throws: the catch block answers.
AuthFault(p) ==
    /\ runs[p].pc \in {"lookup", "write"}
    /\ \E written \in BOOLEAN :
         /\ written => (runs[p].pc = "write" /\ runs[p].found # {})
         /\ yclientsUsers' =
                IF written
                THEN updateYClientsUserMapping(
                         (CHOOSE m \in runs[p].found : TRUE).id, runs[p])
                ELSE yclientsUsers
         /\ runs' = [runs EXCEPT ![p] =
                [@ EXCEPT !.pc = "done",
                          !.wrote = IF written THEN "update" ELSE "none",
                          !.responses = <<handleFunctionError(
                              PlainError("store call failed"))>>]]
    /\ UNCHANGED authFrame

\* The handler returns after its response: its local state is gone.
AuthEnd(p) ==
    /\ runs[p].pc = "done"
    /\ runs' = [runs EXCEPT ![p] = IdleAuth]
    /\ UNCHANGED <<yclientsUsers, authFrame>>

\* syncChats: a store read before the loop throws; the outer catch answers.
SyncRequestFault ==
    /\ syncPc = "idle" /\ sweepPc = "idle"
    /\ \E request \in SyncRequests :
         /\ validatePostMethod(request.method) = <<>>
         /\ validateSyncRequest(request.userId) = <<>>
         /\ syncLog' = [EmptySyncLog EXCEPT !.request = request]
         /\ responses' = <<handleFunctionError(PlainError("store call failed"))>>
    /\ syncStats' = ZeroSyncStats
    /\ lastOp' = NoOp
    /\ UNCHANGED <<syncPc, syncLeft, settled>>
    /\ UNCHANGED <<now, storeVars, sweepVars, runs, notifVars>>

InitAuth ==
    /\ now = StartMillis
    /\ yclientsChats = {}
    /\ yclientsRecords = {}
    /\ chats = {}
    /\ yclientsUsers = {IdentityStaff}
    /\ users = {UserOfClient, UserOfStaff}
    /\ sweepPc = "idle"
    /\ sweepQueue = <<>>
    /\ stats = ZeroChatSyncStats
    /\ sweepLog = EmptySweepLog
    /\ syncPc = "idle"
    /\ syncLeft = 0
    /\ syncStats = ZeroSyncStats
    /\ syncLog = EmptySyncLog
    /\ responses = <<>>
    /\ lastOp = NoOp
    /\ settled = {}
    /\ runs = [p \in {1} |-> IdleAuth]
    /\ NoNotifications

\* No authentication request is in flight.
AuthQuiet == \A p \in AuthIds : runs[p].pc = "idle"

\* The endpoints' specification: requests to authClient and authStaff, one
\* after the other, followed by requests to syncChats, with store calls that
\* throw before the loop of syncChats; a sync request loads at most
\* MaxSyncRecords records.
NextAuth ==
    \/ \E p \in AuthIds : syncLog.request = NoRequest /\ AuthRequest(p)
    \/ \E p \in AuthIds : AuthLookup(p)
    \/ \E p \in AuthIds : AuthWrite(p)
    \/ \E p \in AuthIds : AuthFault(p)
    \/ \E p \in AuthIds : AuthEnd(p)
    \/ AuthQuiet /\ SyncRequest /\ syncLeft' <= MaxSyncRecords
    \/ AuthQuiet /\ SyncRequestFault
    \/ SyncStep
    \/ EndSync

SpecAuth == InitAuth /\ [][NextAuth]_vars

\* The overlap specification of the authentication endpoints: two requests
\* that the provider authenticates, in flight with no coordination between
\* them.
InitAuthOverlap ==
    /\ now = StartMillis
    /\ yclientsChats = {}
    /\ yclientsRecords = {}
    /\ chats = {}
    /\ yclientsUsers = {}
    /\ users = {UserOfClient, UserOfStaff}
    /\ sweepPc = "idle"
    /\ sweepQueue = <<>>
    /\ stats = ZeroChatSyncStats
    /\ sweepLog = EmptySweepLog
    /\ syncPc = "idle"
    /\ syncLeft = 0
    /\ syncStats = ZeroSyncStats
    /\ syncLog = EmptySyncLog
    /\ responses = <<>>
    /\ lastOp = NoOp
    /\ settled = {}
    /\ runs = [p \in RunIds |-> IdleAuth]
    /\ NoNotifications

NextAuthOverlap ==
    \/ \E p \in AuthIds : AuthRequest(p) /\ runs'[p].pc = "lookup"
    \/ \E p \in AuthIds : AuthLookup(p)
    \/ \E p \in AuthIds : AuthWrite(p)
    \/ \E p \in AuthIds : AuthEnd(p)

SpecAuthOverlap == InitAuthOverlap /\ [][NextAuthOverlap]_vars

\* A response carries success false, a message and a numeric code.
IsErrorResponse(r) ==
    /\ r.success = "false"
    /\ r.error.t = "string" /\ r.error.s # ""
    /\ r.errorCode.t = "number"

\* C26: every request to syncChats, authClient and authStaff that has ended
\* was sent exactly one response and a request in progress none yet; every
\* response other than the 200 and the preflight's 204 carries success
\* false, a message and a numeric code.
C26_ExactlyOneResponse ==
    /\ syncPc = "loop" => responses = <<>>
    /\ syncPc = "idle" /\ syncLog.request # NoRequest =>
          /\ Len(responses) = 1
          /\ responses[1].status \notin {200, 204} => IsErrorResponse(responses[1])
    /\ \A p \in AuthIds :
          /\ runs[p].pc \in {"lookup", "write"} => runs[p].responses = <<>>
          /\ runs[p].pc = "done" =>
                /\ Len(runs[p].responses) = 1
                /\ runs[p].responses[1].status \notin {200, 204} =>
                      IsErrorResponse(runs[p].responses[1])

C26_Witness ==
    \E p \in AuthIds :
        /\ runs[p].pc = "done"
        /\ runs[p].kind = "staff"
        /\ Len(runs[p].responses) = 1
        /\ runs[p].responses[1].error = JStr("YClients API Error")
        /\ runs[p].responses[1].status = 401
        /\ runs[p].responses[1].errorCode = JNum(401)

\* The identity mappings of one provider client id, and of one phone.
MappingsOfClient(clientId) == {m \in yclientsUsers : m.clientId = clientId}
MappingsOfPhone(phone) == {m \in yclientsUsers : m.phone = phone}

\* C27: whatever authentications of clients and staff members came before,
\* two overlapping ones included, the identity mappings hold at most one
\* mapping for a provider client id and at most one for a phone.
C27_OneMappingPerIdentity ==
    \A m \in yclientsUsers :
        /\ Cardinality(MappingsOfClient(m.clientId)) <= 1
        /\ Cardinality(MappingsOfPhone(m.phone)) <= 1

\* The document ids of the identity mappings.
IdentityDocIds == {m.id : m \in yclientsUsers}

\* The step is the answer 200 of authentication request p.
Authenticated(p) ==
    /\ runs[p].pc = "write" /\ runs'[p].pc = "done"
    /\ runs'[p].responses = <<AuthedResponse(ProviderUserId(runs[p].login),
                                             runs[p].userToken)>>

\* C28: a successful authentication of an identity that has no mapping
\* creates its mapping, one document; a successful authentication of an
\* identity that has a mapping creates none and leaves that mapping with the
\* token the provider just returned; no step of an authentication or of a
\* sync request removes an identity mapping.
C28_CreateOnceThenRefresh ==
    [][/\ IdentityDocIds \subseteq IdentityDocIds'
       /\ \A p \in AuthIds : Authenticated(p) =>
            LET clientId == ProviderUserId(runs[p].login)
                stored == MappingsOfClient(clientId)
            IN  /\ stored = {} =>
                     /\ Cardinality(IdentityDocIds') = Cardinality(IdentityDocIds) + 1
                     /\ \E m \in yclientsUsers' \ yclientsUsers :
                          /\ m.clientId = clientId
                          /\ m.userToken = runs[p].userToken
                          /\ yclientsUsers' = yclientsUsers \cup {m}
                /\ stored # {} =>
                     /\ IdentityDocIds' = IdentityDocIds
                     /\ \A m \in yclientsUsers' :
                          /\ m.clientId = clientId => m.userToken = runs[p].userToken
                          /\ m.clientId # clientId => m \in yclientsUsers
                     /\ {m.id : m \in MappingsOfClient(clientId)'} =
                        {m.id : m \in stored}]_vars

C28_Witness ==
    \E p \in AuthIds :
        /\ runs[p].pc = "done"
        /\ runs[p].wrote = "update"
        /\ runs[p].kind = "client"
        /\ runs[p].login = IdentityClient.phone
        /\ runs[p].responses[1].status = 200
        /\ yclientsUsers =
             {IdentityStaff,
              [id |-> 1, clientId |-> 1, phone |-> IdentityClient.phone,
               staffId |-> 0, userToken |-> runs[p].userToken]}

(***************************************************************************)
(* The record reconciler on its own (spec section 4.2): booking records of *)
(* one chat mapping are applied one after the other, every compared field  *)
(* of a record free to change between two applications.                    *)
(***************************************************************************)
ReconcilerRecords ==
    {r \in YRecords : r.client = Client1 /\ Len(r.services) > 0
                      /\ r.attendance \in {0, 1}}

\* The count a reconciliation adds to, with every stored entry overwritten.
upsertKindBlind(chatId, record) ==
    LET stored == {r \in yclientsRecords :
                      r.chatId = chatId /\ r.recordId = record.id}
    IN  IF stored = {} THEN "created" ELSE "updated"

\* The count a reconciliation adds to: created, updated or unchanged.
upsertKind(chatId, record) ==
    LET normalized == normalizeRecord(chatId, record)
        stored == {r \in yclientsRecords :
                      r.chatId = chatId /\ r.recordId = record.id}
    IN  IF stored = {} THEN "created"
        ELSE IF stored = {normalized} THEN "unchanged"
        ELSE "updated"

ReconcileRecord ==
    /\ sweepPc = "idle" /\ syncPc = "idle"
    /\ \E record \in ReconcilerRecords : \E mapping \in yclientsChats :
         /\ yclientsRecords' = upsertRecord(mapping.id, record)
         /\ lastOp' = [NoOp EXCEPT !.kind = upsertKind(mapping.id, record),
                                   !.m = mapping.id]
         /\ syncLog' = [syncLog EXCEPT !.record = record]
    /\ UNCHANGED <<now, yclientsChats, chats, yclientsUsers, users, sweepVars,
                   syncPc, syncLeft, syncStats, responses, settled, runs,
                   notifVars>>

InitReconciler ==
    /\ now = StartMillis
    /\ yclientsChats = {ResolvedMapping}
    /\ yclientsRecords = {}
    /\ chats = {}
    /\ yclientsUsers = {IdentityClient, IdentityStaff}
    /\ users = {UserOfClient, UserOfStaff}
    /\ sweepPc = "idle"
    /\ sweepQueue = <<>>
    /\ stats = ZeroChatSyncStats
    /\ sweepLog = EmptySweepLog
    /\ syncPc = "idle"
    /\ syncLeft = 0
    /\ syncStats = ZeroSyncStats
    /\ syncLog = EmptySyncLog
    /\ responses = <<>>
    /\ lastOp = NoOp
    /\ settled = {}
    /\ runs = IdleRuns
    /\ NoNotifications

NextReconciler == ReconcileRecord

SpecReconciler == InitReconciler /\ [][NextReconciler]_vars

\* The compared fields in which two booking records differ.
ChangedFields(a, b) ==
    {f \in {"deleted", "services", "datetime", "attendance", "length"} :
        a[f] # b[f]}

\* C29: a booking record applied to the record reconciler when the
\* sub-ledger has no entry of its id is one create; applied again as it is,
\* it writes nothing; applied again with exactly one compared field changed,
\* it is one update, of its own entry; and applying a record whose entry is
\* stored as normalized, as in a run over unchanged data, writes nothing.
C29_ReconcilerIdempotent ==
    [][LET record == syncLog'.record
           last == syncLog.record
           chatId == lastOp'.m
           normalized == normalizeRecord(chatId, record)
           stored == {r \in yclientsRecords :
                         r.chatId = chatId /\ r.recordId = record.id}
       IN  /\ stored = {} =>
                /\ lastOp'.kind = "created"
                /\ yclientsRecords' = yclientsRecords \cup {normalized}
                /\ normalized \notin yclientsRecords
           /\ record = last =>
                /\ lastOp'.kind = "unchanged"
                /\ UNCHANGED yclientsRecords
           /\ (record.id = last.id /\ Cardinality(ChangedFields(last, record)) = 1) =>
                /\ lastOp'.kind = "updated"
                /\ yclientsRecords' =
                      (yclientsRecords \ {normalizeRecord(chatId, last)})
                          \cup {normalized}
                /\ Cardinality(yclientsRecords') = Cardinality(yclientsRecords)
           /\ normalized \in yclientsRecords =>
                /\ lastOp'.kind = "unchanged"
                /\ UNCHANGED yclientsRecords]_vars

C29_Witness ==
    /\ lastOp.kind = "updated"
    /\ syncLog.record.id = 1
    /\ syncLog.record.deleted
    /\ Cardinality(yclientsRecords) = 2
    /\ normalizeRecord(ResolvedMapping.id, syncLog.record) \in yclientsRecords

(***************************************************************************)
(* The record fetch of the on-demand sync (loadRecordsForUser).  The       *)
(* provider holds staffRecords booking records of the staff member,        *)
(* numbered 1, 2, ... in upstream order, and allRecords records in all, of *)
(* which those numbered in samePhone carry the user's phone; it answers a  *)
(* request with one page, of `count` records when the request names no     *)
(* page size.  Request number `failing` is answered without success.       *)
(***************************************************************************)
PageSize == 2
MaxUpstream == 5

\* Records first..last in upstream order, numbered with the given sign.
UpstreamPage(first, last, sign) ==
    [i \in 1..(IF last < first THEN 0 ELSE last - first + 1) |->
        sign * (first + i - 1)]

\* getRecords: one GET; the provider's answer to it is the first page of the
\* matching records and their total count.
getRecords(matching, count, succeeds, sign) ==
    [success |-> succeeds,
     data |-> IF succeeds
              THEN UpstreamPage(1, IF matching < count THEN matching ELSE count,
                                sign)
              ELSE <<>>,
     total_count |-> matching]

RECURSIVE FilterSeq(_, _)
FilterSeq(seq, keep) ==
    IF seq = <<>> THEN <<>>
    ELSE IF Head(seq) \in keep THEN <<Head(seq)>> \o FilterSeq(Tail(seq), keep)
    ELSE FilterSeq(Tail(seq), keep)

\* loadRecordsForUser: the records returned, or the error thrown, and the
\* number of requests made.  The records of the whole company, which the
\* second request asks for, are numbered -1, -2, ...
loadRecordsForUser(upstream) ==
    LET recordsResult ==
            getRecords(upstream.staffRecords, upstream.count,
                       upstream.failing # 1, 1)
        allResult ==
            getRecords(upstream.allRecords, upstream.count,
                       upstream.failing # 2, -1)
    IN  IF ~recordsResult.success
        THEN [upstream EXCEPT !.error = TRUE, !.requests = 1]
        ELSE IF Len(recordsResult.data) # 0
        THEN [upstream EXCEPT !.data = recordsResult.data, !.requests = 1]
        ELSE IF ~allResult.success
        THEN [upstream EXCEPT !.error = TRUE, !.requests = 2]
        ELSE [upstream EXCEPT
                 !.data = FilterSeq(allResult.data,
                                    {-n : n \in upstream.samePhone}),
                 !.requests = 2]

\* What the provider holds and how it answers.
Upstreams ==
    {u \in [staffRecords : 0..MaxUpstream, allRecords : 0..MaxUpstream,
            samePhone : SUBSET (1..MaxUpstream),
            count : {PageSize, MaxUpstream}, failing : 0..2,
            error : {FALSE}, data : {<<>>}, requests : {0}] :
        /\ u.samePhone \subseteq 1..u.allRecords
        /\ u.staffRecords > 0 =>
              (u.allRecords = u.staffRecords /\ u.samePhone = {}
               /\ u.failing # 2)}

FetchRecords ==
    /\ syncPc = "idle" /\ sweepPc = "idle"
    /\ \E upstream \in Upstreams :
         syncLog' = [EmptySyncLog EXCEPT !.fetch = loadRecordsForUser(upstream)]
    /\ UNCHANGED <<now, storeVars, sweepVars, syncPc, syncLeft, syncStats,
                   responses, lastOp, settled, runs, notifVars>>

NextFetch == FetchRecords

SpecFetch == Init /\ [][NextFetch]_vars

\* C30: the record fetch for a staff member with booking records returns
\* all of them, in upstream order, in as many requests as there are pages of
\* PageSize records, and when the provider fails it yields an error and no
\* records.
C30_FetchComplete ==
    LET fetch == syncLog.fetch
    IN  (fetch.requests > 0 /\ fetch.staffRecords > 0) =>
            IF fetch.failing = 1
            THEN fetch.error /\ fetch.data = <<>>
            ELSE /\ ~fetch.error
                 /\ fetch.data = UpstreamPage(1, fetch.staffRecords, 1)
                 /\ fetch.requests =
                        (fetch.staffRecords + PageSize - 1) \div PageSize

\* C31: no step of the record sync, of the projection sweep or of the
\* on-demand sync removes a ChatMapping or a Chat, and every ChatMapping is
\* kept as it is, identity fields included, in every later state.
C31_MappingsAndChatsKept ==
    [][/\ yclientsChats \subseteq yclientsChats'
       /\ {c.id : c \in chats} \subseteq {c.id : c \in chats'}
       /\ \A m \in yclientsChats : \A n \in yclientsChats' :
            n.id = m.id =>
               /\ n.staffId = m.staffId /\ n.staffPhone = m.staffPhone
               /\ n.clientId = m.clientId /\ n.clientPhone = m.clientPhone]_vars

C31_Witness ==
    /\ lastOp.kind = "update"
    /\ Cardinality(yclientsChats) = 2
    /\ Cardinality(chats) = 2
    /\ \E m \in yclientsChats : m.recordId # 0
    /\ \E m \in yclientsChats : m.recordId = 0

\* The step is processNotification on the notification at the head of the
\* dispatch queue.
ProcessesHead ==
    /\ dispatchPc = "loop" /\ dispatchQueue # <<>>
    /\ dispatchQueue' = Tail(dispatchQueue)

\* C32: processNotification checks the recipient first, then whether the
\* message is read, then the debounce: a notification whose recipient is
\* missing is removed whatever its message is, and a notification of a read
\* message is removed in this sweep however recently the message changed.
C32_RecipientThenReadThenDebounce ==
    [][ProcessesHead =>
        LET notification == Head(dispatchQueue)
            found == getMessage(notification.chatId, notification.messageId)
            refers == notification.messageId # 0 /\ notification.chatId # 0
        IN  /\ getUser(notification.toUserId) = {} =>
                /\ lastNotif'.outcome = "removedNoUser"
                /\ notificationsPending' =
                      {n \in notificationsPending : n.id # notification.id}
                /\ UNCHANGED notificationsSent
            /\ (/\ getUser(notification.toUserId) # {}
                /\ refers
                /\ \E m \in found : m.status = "read") =>
                /\ lastNotif'.outcome = "removedRead"
                /\ notificationsPending' =
                      {n \in notificationsPending : n.id # notification.id}
                /\ UNCHANGED notificationsSent]_vars

C32_Witness ==
    /\ lastNotif.outcome = "removedRead"
    /\ lastNotif.age >= 0
    /\ lastNotif.age < oneMinuteInMillis
    /\ \A n \in notificationsPending : n.id # lastNotif.id

\* The step is processRecord returning for the record noted in the log.
ProcessesRecord == syncPc = "loop" /\ syncLog'.ok = syncLog.ok + 1

\* C33: in the on-demand sync a record with a client whose mapping and chat
\* an earlier pass created makes no further ChatMapping and no further Chat;
\* the chat gets the record's title and status, its participants, date and
\* every other chat stay as they were, and only chatsUpdated and
\* recordsProcessed are counted up.
C33_SecondPassUpdates ==
    [][ProcessesRecord =>
        LET record == syncLog'.record
            mapping == getYClientsChatMappingByRecordId(record.id)
            existing == IF mapping = {} THEN {}
                        ELSE getChatByYClientsId(chats,
                                 (CHOOSE m \in mapping : TRUE).id)
        IN  (record.client.present /\ existing # {}) =>
              LET chat == CHOOSE c \in existing : TRUE
              IN  /\ UNCHANGED yclientsChats
                  /\ {c.id : c \in chats'} = {c.id : c \in chats}
                  /\ \A c \in chats' :
                       IF c.id = chat.id
                       THEN /\ c.title = getChatTitleFromRecord(record)
                            /\ c.status = getChatStatusFromRecord(record)
                            /\ c.users = chat.users
                            /\ c.date = chat.date
                            /\ c.yclientsId = chat.yclientsId
                       ELSE c \in chats
                  /\ syncStats' = [syncStats EXCEPT !.chatsUpdated = @ + 1,
                                                    !.recordsProcessed = @ + 1]]_vars

C33_Witness ==
    /\ lastOp.kind = "syncUpdate"
    /\ syncLog.record.client.present
    /\ syncLog.record.attendance = 1
    /\ syncStats.chatsUpdated = 1 /\ syncStats.chatsCreated = 1
    /\ \E c \in chats : c.status = "archived" /\ c.users # <<>>
    /\ Cardinality(yclientsChats) = 1 /\ Cardinality(chats) = 1

\* The request at p is answered by the checks that precede the lookup of its
\* identity mapping.
AnsweredBeforeLookup(p) ==
    /\ runs[p].pc = "idle" /\ runs'[p].pc = "done"
    /\ Len(runs'[p].responses) = 1

\* C34: a request whose provider call returns without success or without
\* data is answered 401 and a staff login that authenticates but is absent
\* from the staff list is answered 403; a request answered at this point has
\* made no store call and the identity mappings are what they were.
C34_FailedAuthWritesNothing ==
    [][\A p \in AuthIds :
        /\ (runs[p].pc = "idle" /\ runs'[p].pc # "idle") =>
             \A request \in {r \in AuthRequests : ReachesProvider(r)} :
               \A answer \in ProviderAnswers(request.kind) :
                 LET sent == IF request.kind = "client"
                             THEN authClientChecks(request, answer)
                             ELSE authStaffChecks(request, answer)
                 IN  /\ answer.outcome = "rejected" =>
                            /\ Len(sent) = 1
                            /\ sent[1].status = 401
                            /\ IsErrorResponse(sent[1])
                     /\ (request.kind = "staff" /\ answer.staffList = "absent") =>
                            /\ Len(sent) = 1
                            /\ sent[1].status = 403
                            /\ IsErrorResponse(sent[1])
        /\ AnsweredBeforeLookup(p) =>
             /\ UNCHANGED yclientsUsers
             /\ runs'[p].wrote = "none"
             /\ runs'[p].found = {}]_vars

C34_Witness ==
    \E p \in AuthIds :
        /\ runs[p].pc = "done"
        /\ runs[p].kind = "staff"
        /\ runs[p].wrote = "none"
        /\ runs[p].responses =
               <<ErrorResponse(403,
                     "User authenticated but not found in staff list. Access denied.")>>
        /\ yclientsUsers = {IdentityStaff}

(***************************************************************************)
(* Two invocations of processPendingNotifications that overlap: the        *)
(* schedule starts a sweep every minute whether or not the one before has  *)
(* returned. Each invocation keeps the notifications it read and, here,    *)
(* the number of times it called the push gateway for each notification.   *)
(***************************************************************************)
IdleDispatch ==
    [pc |-> "idle", queue |-> <<>>, pushes |-> [id \in NotificationIds |-> 0]]

\* The calls of sendPushNotification made for notification id so far.
PushCount(id) ==
    LET RECURSIVE Sum(_)
        Sum(S) == IF S = {} THEN 0
                  ELSE LET p == CHOOSE q \in S : TRUE
                       IN  runs[p].pushes[id] + Sum(S \ {p})
    IN  Sum(DOMAIN runs)

\* Invocation p reads the pending notifications.
OverlapStartDispatch(p) ==
    /\ runs[p].pc = "idle"
    /\ notificationsPending # {}
    /\ runs' = [runs EXCEPT ![p] =
           [runs[p] EXCEPT !.pc = "loop", !.queue = getPendingNotifications]]
    /\ UNCHANGED <<now, yclientsChats, yclientsRecords, chats, yclientsUsers, users,
                   sweepVars, syncVars, lastOp, settled, notifVars>>

\* Invocation p runs processNotification on the next notification it read.
OverlapDispatchStep(p) ==
    /\ runs[p].pc = "loop" /\ runs[p].queue # <<>>
    /\ \E gateway \in Gateways :
         LET notification == Head(runs[p].queue)
             res == processNotification(notification, gateway, now)
         IN  /\ ~res.pushed => gateway = "delivered"
             /\ notificationsPending' = res.pending
             /\ notificationsSent' = res.sent
             /\ pushAttempts' = IF res.pushed
                                THEN pushAttempts \cup {notification.id}
                                ELSE pushAttempts
             /\ terminalIds' = IF res.outcome = "held" THEN terminalIds
                               ELSE terminalIds \cup {notification.id}
             /\ runs' = [runs EXCEPT ![p] =
                    [runs[p] EXCEPT
                        !.queue = Tail(runs[p].queue),
                        !.pushes = [runs[p].pushes EXCEPT
                            ![notification.id] =
                                IF res.pushed THEN @ + 1 ELSE @]]]
    /\ UNCHANGED <<now, yclientsChats, yclientsRecords, chats, yclientsUsers, users,
                   sweepVars, syncVars, lastOp, settled, messages, dispatchPc,
                   dispatchQueue, heldQuiet, dispatchLog, lastNotif>>

\* Invocation p has processed every notification it read.
OverlapEndDispatch(p) ==
    /\ runs[p].pc = "loop" /\ runs[p].queue = <<>>
    /\ runs' = [runs EXCEPT ![p] = [runs[p] EXCEPT !.pc = "idle"]]
    /\ UNCHANGED <<now, yclientsChats, yclientsRecords, chats, yclientsUsers, users,
                   sweepVars, syncVars, lastOp, settled, notifVars>>

InitDispatchOverlap ==
    /\ now = StartMillis
    /\ yclientsChats = {}
    /\ yclientsRecords = {}
    /\ chats = {}
    /\ yclientsUsers = {}
    /\ \E user \in Recipients : users = {user}
    /\ sweepPc = "idle"
    /\ sweepQueue = <<>>
    /\ stats = ZeroChatSyncStats
    /\ sweepLog = EmptySweepLog
    /\ syncPc = "idle"
    /\ syncLeft = 0
    /\ syncStats = ZeroSyncStats
    /\ syncLog = EmptySyncLog
    /\ responses = <<>>
    /\ lastOp = NoOp
    /\ settled = {}
    /\ runs = [p \in RunIds |-> IdleDispatch]
    /\ notificationsPending \in PendingSets
    /\ notificationsSent = {}
    /\ \E message \in StoredMessages : messages = {message}
    /\ dispatchPc = "idle"
    /\ dispatchQueue = <<>>
    /\ pushAttempts = {}
    /\ heldQuiet = {}
    /\ terminalIds = {}
    /\ dispatchLog = EmptyLog
    /\ lastNotif = NoNotif

NextDispatchOverlap ==
    \/ Tick
    \/ \E p \in RunIds : OverlapStartDispatch(p)
    \/ \E p \in RunIds : OverlapDispatchStep(p)
    \/ \E p \in RunIds : OverlapEndDispatch(p)

SpecDispatchOverlap == InitDispatchOverlap /\ [][NextDispatchOverlap]_vars

\* C35: every notification has the push gateway called for it at most once
\* and has at most one document in the sent collection, also when two
\* invocations of the dispatcher have both read it as pending.
C35_AtMostOnePushAndRecord ==
    \A id \in NotificationIds :
        /\ PushCount(id) <= 1
        /\ Cardinality({n \in notificationsSent : n.id = id}) <= 1

(***************************************************************************)
(* The dispatcher under its schedule: a sweep starts every minute, the     *)
(* clock advances by the period of the schedule, and no store or gateway   *)
(* call throws. The chat application may touch the message while a whole   *)
(* quiescence window of the clock still lies ahead.                        *)
(***************************************************************************)
MinuteClock == {StartMillis + k * oneMinuteInMillis : k \in 0..MaxTicks}

\* A period of the schedule ("every 1 minutes") passes.
TickMinute ==
    /\ now + oneMinuteInMillis \in MinuteClock
    /\ now' = now + oneMinuteInMillis
    /\ lastOp' = NoOp
    /\ settled' = {}
    /\ UNCHANGED <<storeVars, sweepVars, syncVars, runs, notifVars>>

NextDispatchLive ==
    \/ TickMinute
    \/ StartDispatch
    \/ DispatchStep
    \/ EndDispatch
    \/ now + oneMinuteInMillis \in MinuteClock /\ TouchMessage

SpecDispatchLive ==
    /\ InitNotifications
    /\ [][NextDispatchLive]_vars
    /\ WF_vars(TickMinute)
    /\ WF_vars(StartDispatch)
    /\ WF_vars(DispatchStep)
    /\ WF_vars(EndDispatch)

IsPending(id) == \E n \in notificationsPending : n.id = id

\* C36: under recurring sweeps and advancing time, without exceptions, a
\* notification that is pending eventually is not: once its message is no
\* longer touched the quiescence window elapses and a sweep moves or removes
\* it.
C36_EveryNotificationLeaves ==
    \A id \in NotificationIds : IsPending(id) ~> ~IsPending(id)

C36_Witness ==
    /\ lastNotif.wasHeld
    /\ lastNotif.outcome \in {"sent", "failed"}
    /\ lastNotif.age >= oneMinuteInMillis
    /\ ~IsPending(lastNotif.id)
    /\ lastNotif.id \in terminalIds

(***************************************************************************)
(* The projection sweep under its schedule: a sweep every five minutes,    *)
(* the clock advancing by the period, the sub-ledgers fixed and no store   *)
(* call throwing.                                                          *)
(***************************************************************************)
\* A period of the sweep's schedule passes.
TickPeriod ==
    /\ now + SweepPeriodMillis \in ClockValues
    /\ now' = now + SweepPeriodMillis
    /\ lastOp' = NoOp
    /\ settled' = {}
    /\ UNCHANGED <<storeVars, sweepVars, syncVars, runs, notifVars>>

NextProjectionLive ==
    \/ TickPeriod
    \/ StartSweep
    \/ SweepStep({0})
    \/ EndSweep

\* The stores the scheduled sweeps start from: those of InitProjection in
\* which the records of the sub-ledger carry a service title and record 2 is
\* neither deleted nor attended nor missed.
InitProjectionLive ==
    /\ InitProjection
    /\ \A r \in yclientsRecords :
         /\ r.serviceTitle # JNull
         /\ r.recordId = 2 => (~r.deleted /\ r.attendance = 0)

\* Weak fairness of the loop of the sweep, WF_vars(SweepStep({0})), with the
\* enabling condition of the step written out: the loop has a mapping left.
SweepLoopFair ==
    \/ []<>(~(sweepPc = "loop" /\ sweepQueue # <<>>))
    \/ []<><<SweepStep({0})>>_vars

SpecProjectionLive ==
    /\ InitProjectionLive
    /\ [][NextProjectionLive]_vars
    /\ WF_vars(TickPeriod)
    /\ WF_vars(StartSweep)
    /\ SweepLoopFair
    /\ WF_vars(EndSweep)

\* A record that is not active at one reading of the clock is not active at
\* any later one.
ActivityMonotone ==
    \A r \in yclientsRecords : \A t1 \in ClockValues : \A t2 \in ClockValues :
        (t1 <= t2 /\ ~isRecordActive(r, TimestampFromMillis(t1)))
            => ~isRecordActive(r, TimestampFromMillis(t2))

ChatsOfMapping(id) == {c \in chats : c.yclientsId = id}

ShownActiveRecords(id, chat) ==
    {r \in yclientsRecords :
        /\ r.chatId = id
        /\ \/ isRecordActive(r, TimestampFromMillis(lastOp.tStatus))
           \/ isRecordActive(r, TimestampFromMillis(lastOp.tInfo))
        /\ chat.title = OrNull(r.serviceTitle)
        /\ chat.date = JNum(TimestampToMillis(r.datetime))}

\* C38: after a pass that wrote the chat of a mapping, the chat's status is
\* 'active' exactly when its title and date are those of a record of the
\* sub-ledger that the pass found active.
C38_StatusAgreesWithDisplay ==
    lastOp.kind \in {"create", "update"} =>
        \A c \in ChatsOfMapping(lastOp.m) :
            (c.status = "active") <=> (ShownActiveRecords(lastOp.m, c) # {})

(***************************************************************************)
(* The sequential specification over a store in which one person is both   *)
(* a customer and an employee: their identity mapping carries the client   *)
(* id and phone of the records' client and the staff id of the records'    *)
(* staff member, as after an authClient and an authStaff of the same       *)
(* provider user.                                                          *)
(***************************************************************************)
ClientAndStaff ==
    [id |-> 5, clientId |-> Client1.id, phone |-> Client1.phone,
     staffId |-> StaffId]
UserOfBoth == [id |-> 5, yclientsId |-> ClientAndStaff.id]

InitBothRoles ==
    /\ now = StartMillis
    /\ yclientsChats = {}
    /\ yclientsRecords = {}
    /\ chats = {}
    /\ yclientsUsers \in {{ClientAndStaff}, {IdentityClient, IdentityStaff}}
    /\ users = {UserOfClient, UserOfStaff, UserOfBoth}
    /\ sweepPc = "idle"
    /\ sweepQueue = <<>>
    /\ stats = ZeroChatSyncStats
    /\ sweepLog = EmptySweepLog
    /\ syncPc = "idle"
    /\ syncLeft = 0
    /\ syncStats = ZeroSyncStats
    /\ syncLog = EmptySyncLog
    /\ responses = <<>>
    /\ lastOp = NoOp
    /\ settled = {}
    /\ runs = IdleRuns
    /\ NoNotifications

SpecBothRoles == InitBothRoles /\ [][Next]_vars

\* C39: no chat lists the same internal user id twice among its participants,
\* also when the client and the staff member of its records resolve to one
\* identity mapping.
C39_DistinctParticipants ==
    \A c \in chats : \A i \in DOMAIN c.users : \A j \in DOMAIN c.users :
        i # j => c.users[i] # c.users[j]

(***************************************************************************)
(* The jobs and the on-demand sync recurring over a store whose calls may  *)
(* throw inside processRecord: whenever a sweep or a sync is in its loop   *)
(* it goes on, whenever one has finished it ends, and both start again.    *)
(***************************************************************************)
NextRepair ==
    \/ RecordSync
    \/ StartSweep
    \/ SweepStep({0})
    \/ EndSweep
    \/ StartSync
    \/ SyncStep
    \/ SyncFault
    \/ EndSync

\* Every record of the provider that has a client is processed by the loop
\* of syncChats again and again: the users keep asking for a sync.
SyncsRecur ==
    \A i \in RecordIds :
        []<><<SyncStep /\ syncLog'.record.id = i
                       /\ syncLog'.record.client.present>>_vars

SpecRepair ==
    /\ Init
    /\ [][NextRepair]_vars
    /\ SF_vars(StartSweep)
    /\ SweepLoopFair
    /\ WF_vars(EndSweep)
    /\ SyncsRecur
    /\ WF_vars(EndSync)

\* The chat mapping id was created by the on-demand sync and has no chat.
Orphan(id) ==
    /\ \E m \in yclientsChats : m.id = id /\ m.recordId # 0
    /\ ChatsOfMapping(id) = {}

\* C40: a chat mapping that the on-demand sync created and that has no chat
\* eventually has one.
C40_EveryMappingGetsChat ==
    \A id \in MappingIds : Orphan(id) ~> ~Orphan(id)

====
